---- MODULE Spec2Model ----
(***************************************************************************)
(* Model of the Vietnamese city-name resolver of the weather backend:      *)
(*   - backend/validate_information/city_normalizer.py                     *)
(*       (VietnameseCityNormalizer)                                        *)
(*   - backend/validate_information/input_validator.py                     *)
(*       (InputValidator: sanitize_input, validate_location_request and    *)
(*       the validators it calls)                                          *)
(*   - backend/app.py (search_cities, GET /api/weather/search,             *)
(*       get_current_weather, POST /api/weather/current, the error         *)
(*       handlers and health_check)                                        *)
(*                                                                         *)
(* Strings are sequences of characters.  A character is written as a       *)
(* short ASCII token: plain ASCII characters stand for themselves, and a   *)
(* Vietnamese letter is written as in VIQR, the base letter followed by    *)
(* its marks: ^ circumflex, ( breve, + horn, ! grave (for the VIQR grave   *)
(* accent), ' acute, ? hook above, ~ tilde, . dot below; dd / DD is d      *)
(* with stroke.                                                            *)
(* So <<"h", "a!", " ", "n", "o^.", "i">> is the six-character key of      *)
(* Hanoi in CITY_MAPPINGS.  Every token is ONE character of the Python     *)
(* string (the source's literals are precomposed code points).             *)
(***************************************************************************)
EXTENDS Integers, Sequences, FiniteSets, TLC

VARIABLES
  \* ---- one call of VietnameseCityNormalizer.normalize_city_name ----
  city_name,           \* the argument
  no_prefix,           \* local city_no_prefix: the lowercased name after the prefix loop
  normalized_queries,  \* the returned list
  norm_pc,             \* "off" | "call" | "done"
  \* ---- one call of is_vietnamese_city_query, or of
  \*      remove_vietnamese_diacritics and a second one on its result ----
  text,                \* the argument
  is_vietnamese,       \* what is_vietnamese_city_query(text) returned
  folded,              \* what remove_vietnamese_diacritics(text) returned
  refolded,            \* what remove_vietnamese_diacritics(folded) returned
  text_pc,             \* "off" | "call" | "classified" | "folded" | "refolded"
  \* ---- one call of InputValidator.validate_location_request ----
  val_data,            \* the argument (data)
  validation,          \* the returned (is_valid, error_message, cleaned_data)
  val_pc,              \* "off" | "call" | "done"
  \* ---- one call of validate_days, of sanitize_input (and a second one on
  \*      its result) or of get_search_suggestions ----
  argument,            \* the argument
  returned,            \* what the call returned
  returned_again,      \* what the second call, on returned, returned
  call_pc,             \* "off" | "call" | "done" | "again"
  \* ---- the requests that other workers handle at the same time ----
  worker,              \* the worker whose request the variables below hold
  suspended,           \* the locals of the requests of the other workers
  \* ---- one request to GET /api/health, to a path that has no route, or
  \*      with a method its route does not allow ----
  route,               \* "off" | "health" | "no_route" | "wrong_method" | "done"
  \* ---- one request to POST /api/weather/current (get_current_weather);
  \*      its query, calls, answers and response are the variables below ----
  is_json,             \* request.is_json
  json_data,           \* local data: request.get_json(), then sanitized
  cleaned_data,        \* local: the cleaned data of the validator
  weather_pc,          \* "off" | "start" | "await" | "done"
  \* ---- one request to GET /api/weather/search (search_cities) ----
  q,                   \* request.args.get('q', '')
  query,               \* local: stripped, then sanitized query
  search_queries,      \* local: the candidate list
  next_query,          \* position of the for loop in search_queries
  all_results,         \* local: accumulator
  seen_ids,            \* local: set of ids already accumulated
  pc,                  \* "off" | "start" | "loop" | "await" | "format" | "done"
  calls,               \* the 'q' of every requests.get sent upstream, in order
  answers,             \* what upstream answered to each call, in order
  response             \* the (body, status) returned to the client

vars == <<city_name, no_prefix, normalized_queries, norm_pc,
          text, is_vietnamese, folded, refolded, text_pc,
          val_data, validation, val_pc,
          argument, returned, returned_again, call_pc, worker, suspended, route,
          is_json, json_data, cleaned_data, weather_pc, q, query, search_queries,
          next_query, all_results, seen_ids, pc, calls, answers, response>>

normVars == <<city_name, no_prefix, normalized_queries, norm_pc>>
textVars == <<text, is_vietnamese, folded, refolded, text_pc>>
validateVars == <<val_data, validation, val_pc>>
weatherVars == <<is_json, json_data, cleaned_data, weather_pc>>
callVars == <<argument, returned, returned_again, call_pc>>
concVars == <<worker, suspended>>
routeVars == <<route>>
searchVars == <<q, query, search_queries, next_query, all_results, seen_ids,
                pc, calls, answers, response>>

-----------------------------------------------------------------------------
(* Static tables of city_normalizer.py *)

\* remove_vietnamese_diacritics: vietnamese_map, in the order of the dict
vietnamese_map ==
  << <<"a!", "a">>, <<"a'", "a">>, <<"a?", "a">>, <<"a~", "a">>, <<"a.", "a">>,
     <<"a(", "a">>, <<"a(!", "a">>, <<"a('", "a">>, <<"a(?", "a">>, <<"a(~", "a">>,
     <<"a(.", "a">>, <<"a^", "a">>, <<"a^!", "a">>, <<"a^'", "a">>, <<"a^?", "a">>,
     <<"a^~", "a">>, <<"a^.", "a">>, <<"dd", "d">>, <<"e!", "e">>, <<"e'", "e">>,
     <<"e?", "e">>, <<"e~", "e">>, <<"e.", "e">>, <<"e^", "e">>, <<"e^!", "e">>,
     <<"e^'", "e">>, <<"e^?", "e">>, <<"e^~", "e">>, <<"e^.", "e">>, <<"i!", "i">>,
     <<"i'", "i">>, <<"i?", "i">>, <<"i~", "i">>, <<"i.", "i">>, <<"o!", "o">>,
     <<"o'", "o">>, <<"o?", "o">>, <<"o~", "o">>, <<"o.", "o">>, <<"o^", "o">>,
     <<"o^!", "o">>, <<"o^'", "o">>, <<"o^?", "o">>, <<"o^~", "o">>, <<"o^.", "o">>,
     <<"o+", "o">>, <<"o+!", "o">>, <<"o+'", "o">>, <<"o+?", "o">>, <<"o+~", "o">>,
     <<"o+.", "o">>, <<"u!", "u">>, <<"u'", "u">>, <<"u?", "u">>, <<"u~", "u">>,
     <<"u.", "u">>, <<"u+", "u">>, <<"u+!", "u">>, <<"u+'", "u">>, <<"u+?", "u">>,
     <<"u+~", "u">>, <<"u+.", "u">>, <<"y!", "y">>, <<"y'", "y">>, <<"y?", "y">>,
     <<"y~", "y">>, <<"y.", "y">> >>

\* upper and lower case forms of the letters of the alphabet: A-Z and the
\* upper-case forms of the keys of vietnamese_map (what str.lower() maps)
CasePairs ==
  << <<"A", "a">>, <<"B", "b">>, <<"C", "c">>, <<"D", "d">>, <<"E", "e">>, <<"F", "f">>,
     <<"G", "g">>, <<"H", "h">>, <<"I", "i">>, <<"J", "j">>, <<"K", "k">>, <<"L", "l">>,
     <<"M", "m">>, <<"N", "n">>, <<"O", "o">>, <<"P", "p">>, <<"Q", "q">>, <<"R", "r">>,
     <<"S", "s">>, <<"T", "t">>, <<"U", "u">>, <<"V", "v">>, <<"W", "w">>, <<"X", "x">>,
     <<"Y", "y">>, <<"Z", "z">>, <<"A!", "a!">>, <<"A'", "a'">>, <<"A?", "a?">>, <<"A~", "a~">>,
     <<"A.", "a.">>, <<"A(", "a(">>, <<"A(!", "a(!">>, <<"A('", "a('">>, <<"A(?", "a(?">>, <<"A(~", "a(~">>,
     <<"A(.", "a(.">>, <<"A^", "a^">>, <<"A^!", "a^!">>, <<"A^'", "a^'">>, <<"A^?", "a^?">>, <<"A^~", "a^~">>,
     <<"A^.", "a^.">>, <<"DD", "dd">>, <<"E!", "e!">>, <<"E'", "e'">>, <<"E?", "e?">>, <<"E~", "e~">>,
     <<"E.", "e.">>, <<"E^", "e^">>, <<"E^!", "e^!">>, <<"E^'", "e^'">>, <<"E^?", "e^?">>, <<"E^~", "e^~">>,
     <<"E^.", "e^.">>, <<"I!", "i!">>, <<"I'", "i'">>, <<"I?", "i?">>, <<"I~", "i~">>, <<"I.", "i.">>,
     <<"O!", "o!">>, <<"O'", "o'">>, <<"O?", "o?">>, <<"O~", "o~">>, <<"O.", "o.">>, <<"O^", "o^">>,
     <<"O^!", "o^!">>, <<"O^'", "o^'">>, <<"O^?", "o^?">>, <<"O^~", "o^~">>, <<"O^.", "o^.">>, <<"O+", "o+">>,
     <<"O+!", "o+!">>, <<"O+'", "o+'">>, <<"O+?", "o+?">>, <<"O+~", "o+~">>, <<"O+.", "o+.">>, <<"U!", "u!">>,
     <<"U'", "u'">>, <<"U?", "u?">>, <<"U~", "u~">>, <<"U.", "u.">>, <<"U+", "u+">>, <<"U+!", "u+!">>,
     <<"U+'", "u+'">>, <<"U+?", "u+?">>, <<"U+~", "u+~">>, <<"U+.", "u+.">>, <<"Y!", "y!">>, <<"Y'", "y'">>,
     <<"Y?", "y?">>, <<"Y~", "y~">>, <<"Y.", "y.">> >>

\* CITY_MAPPINGS, in the order of the dict: <<key, search term>>
CITY_MAPPINGS_items ==
  << <<<<"h", "a!", " ", "n", "o^.", "i">>,
       <<"h", "a", "n", "o", "i">>>>,
     <<<<"t", "h", "a!", "n", "h", " ", "p", "h", "o^'", " ", "h", "o^!", " ", "c", "h", "i'", " ", "m", "i", "n", "h">>,
       <<"h", "o", " ", "c", "h", "i", " ", "m", "i", "n", "h", " ", "c", "i", "t", "y">>>>,
     <<<<"t", "p", " ", "h", "o^!", " ", "c", "h", "i'", " ", "m", "i", "n", "h">>,
       <<"h", "o", " ", "c", "h", "i", " ", "m", "i", "n", "h", " ", "c", "i", "t", "y">>>>,
     <<<<"t", "p", ".", "h", "c", "m">>,
       <<"h", "o", " ", "c", "h", "i", " ", "m", "i", "n", "h", " ", "c", "i", "t", "y">>>>,
     <<<<"h", "c", "m">>,
       <<"h", "o", " ", "c", "h", "i", " ", "m", "i", "n", "h", " ", "c", "i", "t", "y">>>>,
     <<<<"s", "a!", "i", " ", "g", "o!", "n">>,
       <<"s", "a", "i", "g", "o", "n">>>>,
     <<<<"dd", "a!", " ", "n", "a(~", "n", "g">>,
       <<"d", "a", " ", "n", "a", "n", "g">>>>,
     <<<<"h", "a?", "i", " ", "p", "h", "o!", "n", "g">>,
       <<"h", "a", "i", " ", "p", "h", "o", "n", "g">>>>,
     <<<<"c", "a^!", "n", " ", "t", "h", "o+">>,
       <<"c", "a", "n", " ", "t", "h", "o">>>>,
     <<<<"b", "i", "e^", "n", " ", "h", "o!", "a">>,
       <<"b", "i", "e", "n", " ", "h", "o", "a">>>>,
     <<<<"n", "h", "a", " ", "t", "r", "a", "n", "g">>,
       <<"n", "h", "a", " ", "t", "r", "a", "n", "g">>>>,
     <<<<"h", "u", "e^'">>,
       <<"h", "u", "e">>>>,
     <<<<"b", "u", "o^", "n", " ", "m", "a", " ", "t", "h", "u", "o^.", "t">>,
       <<"b", "u", "o", "n", " ", "m", "a", " ", "t", "h", "u", "o", "t">>>>,
     <<<<"p", "l", "e", "i", "k", "u">>,
       <<"p", "l", "e", "i", "k", "u">>>>,
     <<<<"q", "u", "y", " ", "n", "h", "o+", "n">>,
       <<"q", "u", "y", " ", "n", "h", "o", "n">>>>,
     <<<<"t", "h", "u?", " ", "dd", "u+'", "c">>,
       <<"t", "h", "u", " ", "d", "u", "c">>>>,
     <<<<"l", "o", "n", "g", " ", "x", "u", "y", "e^", "n">>,
       <<"l", "o", "n", "g", " ", "x", "u", "y", "e", "n">>>>,
     <<<<"m", "y~", " ", "t", "h", "o">>,
       <<"m", "y", " ", "t", "h", "o">>>>,
     <<<<"c", "a!", " ", "m", "a", "u">>,
       <<"c", "a", " ", "m", "a", "u">>>>,
     <<<<"b", "a.", "c", " ", "l", "i", "e^", "u">>,
       <<"b", "a", "c", " ", "l", "i", "e", "u">>>>,
     <<<<"v", "u~", "n", "g", " ", "t", "a!", "u">>,
       <<"v", "u", "n", "g", " ", "t", "a", "u">>>>,
     <<<<"p", "h", "a", "n", " ", "t", "h", "i", "e^'", "t">>,
       <<"p", "h", "a", "n", " ", "t", "h", "i", "e", "t">>>>,
     <<<<"dd", "a!", " ", "l", "a.", "t">>,
       <<"d", "a", " ", "l", "a", "t">>>>,
     <<<<"v", "i~", "n", "h", " ", "l", "o", "n", "g">>,
       <<"v", "i", "n", "h", " ", "l", "o", "n", "g">>>>,
     <<<<"r", "a.", "c", "h", " ", "g", "i", "a'">>,
       <<"r", "a", "c", "h", " ", "g", "i", "a">>>>,
     <<<<"h", "a.", " ", "l", "o", "n", "g">>,
       <<"h", "a", " ", "l", "o", "n", "g">>>>,
     <<<<"v", "i", "e^.", "t", " ", "t", "r", "i!">>,
       <<"v", "i", "e", "t", " ", "t", "r", "i">>>>,
     <<<<"n", "a", "m", " ", "dd", "i.", "n", "h">>,
       <<"n", "a", "m", " ", "d", "i", "n", "h">>>>,
     <<<<"t", "h", "a'", "i", " ", "n", "g", "u", "y", "e^", "n">>,
       <<"t", "h", "a", "i", " ", "n", "g", "u", "y", "e", "n">>>>,
     <<<<"t", "h", "a'", "i", " ", "b", "i!", "n", "h">>,
       <<"t", "h", "a", "i", " ", "b", "i", "n", "h">>>>,
     <<<<"n", "i", "n", "h", " ", "b", "i!", "n", "h">>,
       <<"n", "i", "n", "h", " ", "b", "i", "n", "h">>>>,
     <<<<"t", "h", "a", "n", "h", " ", "h", "o'", "a">>,
       <<"t", "h", "a", "n", "h", " ", "h", "o", "a">>>>,
     <<<<"v", "i", "n", "h">>,
       <<"v", "i", "n", "h">>>>,
     <<<<"dd", "o^!", "n", "g", " ", "h", "o+'", "i">>,
       <<"d", "o", "n", "g", " ", "h", "o", "i">>>>,
     <<<<"t", "a", "m", " ", "k", "y!">>,
       <<"t", "a", "m", " ", "k", "y">>>>,
     <<<<"q", "u", "a?", "n", "g", " ", "n", "g", "a~", "i">>,
       <<"q", "u", "a", "n", "g", " ", "n", "g", "a", "i">>>>,
     <<<<"t", "u", "y", " ", "h", "o!", "a">>,
       <<"t", "u", "y", " ", "h", "o", "a">>>>,
     <<<<"p", "h", "a", "n", " ", "r", "a", "n", "g">>,
       <<"p", "h", "a", "n", " ", "r", "a", "n", "g">>>>,
     <<<<"b", "a?", "o", " ", "l", "o^.", "c">>,
       <<"b", "a", "o", " ", "l", "o", "c">>>>,
     <<<<"t", "r", "a!", " ", "v", "i", "n", "h">>,
       <<"t", "r", "a", " ", "v", "i", "n", "h">>>>,
     <<<<"s", "o'", "c", " ", "t", "r", "a(", "n", "g">>,
       <<"s", "o", "c", " ", "t", "r", "a", "n", "g">>>>,
     <<<<"c", "h", "a^", "u", " ", "dd", "o^'", "c">>,
       <<"c", "h", "a", "u", " ", "d", "o", "c">>>>,
     <<<<"h", "a!", " ", "t", "i~", "n", "h">>,
       <<"h", "a", " ", "t", "i", "n", "h">>>>,
     <<<<"h", "o!", "a", " ", "b", "i!", "n", "h">>,
       <<"h", "o", "a", " ", "b", "i", "n", "h">>>>,
     <<<<"s", "o+", "n", " ", "l", "a">>,
       <<"s", "o", "n", " ", "l", "a">>>>,
     <<<<"l", "a!", "o", " ", "c", "a", "i">>,
       <<"l", "a", "o", " ", "c", "a", "i">>>>,
     <<<<"dd", "i", "e^.", "n", " ", "b", "i", "e^", "n", " ", "p", "h", "u?">>,
       <<"d", "i", "e", "n", " ", "b", "i", "e", "n", " ", "p", "h", "u">>>>,
     <<<<"l", "a", "i", " ", "c", "h", "a^", "u">>,
       <<"l", "a", "i", " ", "c", "h", "a", "u">>>>,
     <<<<"y", "e^", "n", " ", "b", "a'", "i">>,
       <<"y", "e", "n", " ", "b", "a", "i">>>>,
     <<<<"t", "u", "y", "e^", "n", " ", "q", "u", "a", "n", "g">>,
       <<"t", "u", "y", "e", "n", " ", "q", "u", "a", "n", "g">>>>,
     <<<<"h", "a!", " ", "g", "i", "a", "n", "g">>,
       <<"h", "a", " ", "g", "i", "a", "n", "g">>>>,
     <<<<"c", "a", "o", " ", "b", "a(!", "n", "g">>,
       <<"c", "a", "o", " ", "b", "a", "n", "g">>>>,
     <<<<"b", "a('", "c", " ", "k", "a.", "n">>,
       <<"b", "a", "c", " ", "k", "a", "n">>>>,
     <<<<"l", "a.", "n", "g", " ", "s", "o+", "n">>,
       <<"l", "a", "n", "g", " ", "s", "o", "n">>>>,
     <<<<"m", "o'", "n", "g", " ", "c", "a'", "i">>,
       <<"m", "o", "n", "g", " ", "c", "a", "i">>>>,
     <<<<"b", "a('", "c", " ", "n", "i", "n", "h">>,
       <<"b", "a", "c", " ", "n", "i", "n", "h">>>>,
     <<<<"b", "a('", "c", " ", "g", "i", "a", "n", "g">>,
       <<"b", "a", "c", " ", "g", "i", "a", "n", "g">>>>,
     <<<<"p", "h", "u'", " ", "t", "h", "o.">>,
       <<"p", "h", "u", " ", "t", "h", "o">>>>,
     <<<<"v", "i~", "n", "h", " ", "p", "h", "u'", "c">>,
       <<"v", "i", "n", "h", " ", "p", "h", "u", "c">>>>,
     <<<<"h", "u+", "n", "g", " ", "y", "e^", "n">>,
       <<"h", "u", "n", "g", " ", "y", "e", "n">>>>,
     <<<<"h", "a?", "i", " ", "d", "u+", "o+", "n", "g">>,
       <<"h", "a", "i", " ", "d", "u", "o", "n", "g">>>>,
     <<<<"h", "a!", " ", "n", "a", "m">>,
       <<"h", "a", " ", "n", "a", "m">>>>,
     <<<<"p", "h", "u?", " ", "l", "y'">>,
       <<"p", "h", "u", " ", "l", "y">>>>,
     <<<<"n", "g", "h", "e^.", " ", "a", "n">>,
       <<"n", "g", "h", "e", " ", "a", "n">>>>,
     <<<<"q", "u", "a?", "n", "g", " ", "b", "i!", "n", "h">>,
       <<"q", "u", "a", "n", "g", " ", "b", "i", "n", "h">>>>,
     <<<<"q", "u", "a?", "n", "g", " ", "t", "r", "i.">>,
       <<"q", "u", "a", "n", "g", " ", "t", "r", "i">>>>,
     <<<<"k", "o", "n", " ", "t", "u", "m">>,
       <<"k", "o", "n", " ", "t", "u", "m">>>>,
     <<<<"g", "i", "a", " ", "l", "a", "i">>,
       <<"g", "i", "a", " ", "l", "a", "i">>>>,
     <<<<"dd", "a('", "k", " ", "l", "a('", "k">>,
       <<"d", "a", "k", " ", "l", "a", "k">>>>,
     <<<<"dd", "a('", "k", " ", "n", "o^", "n", "g">>,
       <<"d", "a", "k", " ", "n", "o", "n", "g">>>>,
     <<<<"l", "a^", "m", " ", "dd", "o^!", "n", "g">>,
       <<"l", "a", "m", " ", "d", "o", "n", "g">>>>,
     <<<<"b", "i!", "n", "h", " ", "p", "h", "u+", "o+'", "c">>,
       <<"b", "i", "n", "h", " ", "p", "h", "u", "o", "c">>>>,
     <<<<"t", "a^", "y", " ", "n", "i", "n", "h">>,
       <<"t", "a", "y", " ", "n", "i", "n", "h">>>>,
     <<<<"b", "i!", "n", "h", " ", "d", "u+", "o+", "n", "g">>,
       <<"b", "i", "n", "h", " ", "d", "u", "o", "n", "g">>>>,
     <<<<"dd", "o^!", "n", "g", " ", "n", "a", "i">>,
       <<"d", "o", "n", "g", " ", "n", "a", "i">>>>,
     <<<<"b", "a!", " ", "r", "i.", "a">>,
       <<"b", "a", " ", "r", "i", "a">>>>,
     <<<<"l", "o", "n", "g", " ", "a", "n">>,
       <<"l", "o", "n", "g", " ", "a", "n">>>>,
     <<<<"t", "i", "e^!", "n", " ", "g", "i", "a", "n", "g">>,
       <<"t", "i", "e", "n", " ", "g", "i", "a", "n", "g">>>>,
     <<<<"b", "e^'", "n", " ", "t", "r", "e">>,
       <<"b", "e", "n", " ", "t", "r", "e">>>>,
     <<<<"dd", "o^!", "n", "g", " ", "t", "h", "a'", "p">>,
       <<"d", "o", "n", "g", " ", "t", "h", "a", "p">>>>,
     <<<<"a", "n", " ", "g", "i", "a", "n", "g">>,
       <<"a", "n", " ", "g", "i", "a", "n", "g">>>>,
     <<<<"k", "i", "e^", "n", " ", "g", "i", "a", "n", "g">>,
       <<"k", "i", "e", "n", " ", "g", "i", "a", "n", "g">>>>,
     <<<<"h", "a^.", "u", " ", "g", "i", "a", "n", "g">>,
       <<"h", "a", "u", " ", "g", "i", "a", "n", "g">>>>,
     <<<<"v", "i~", "n", "h", " ", "c", "h", "a^", "u">>,
       <<"v", "i", "n", "h", " ", "c", "h", "a", "u">>>> >>

\* is_vietnamese_city_query: vietnamese_chars
vietnamese_chars ==
  << "a!", "a'", "a?", "a~", "a.", "a(", "a(!", "a('", "a(?", "a(~",
     "a(.", "a^", "a^!", "a^'", "a^?", "a^~", "a^.", "dd", "e!", "e'",
     "e?", "e~", "e.", "e^", "e^!", "e^'", "e^?", "e^~", "e^.", "i!",
     "i'", "i?", "i~", "i.", "o!", "o'", "o?", "o~", "o.", "o^",
     "o^!", "o^'", "o^?", "o^~", "o^.", "o+", "o+!", "o+'", "o+?", "o+~",
     "o+.", "u!", "u'", "u?", "u~", "u.", "u+", "u+!", "u+'", "u+?",
     "u+~", "u+.", "y!", "y'", "y?", "y~", "y." >>

\* normalize_city_name: prefixes
prefixes ==
  << <<"t", "h", "a!", "n", "h", " ", "p", "h", "o^'">>,
     <<"t", "p", ".">>,
     <<"t", "p", " ">>,
     <<"t", "i?", "n", "h">>,
     <<"h", "u", "y", "e^.", "n">>,
     <<"q", "u", "a^.", "n">>,
     <<"t", "h", "i.", " ", "x", "a~">>,
     <<"t", "h", "i.", " ", "t", "r", "a^'", "n">> >>

-----------------------------------------------------------------------------
(* Python str and list primitives used by the code *)

Range(s) == {s[i] : i \in 1..Len(s)}

Min(S) == CHOOSE x \in S : \A y \in S : x <= y

Max(S) == CHOOSE x \in S : \A y \in S : x >= y

\* the whitespace of the model's alphabet (str.strip() strips all whitespace)
Whitespace == {" "}

\* str.strip()
strip(s) ==
  LET keep == {i \in 1..Len(s) : s[i] \notin Whitespace}
  IN  IF keep = {} THEN <<>> ELSE SubSeq(s, Min(keep), Max(keep))

ToLower == [c \in {CasePairs[k][1] : k \in 1..Len(CasePairs)} |->
              CasePairs[CHOOSE k \in 1..Len(CasePairs) : CasePairs[k][1] = c][2]]

\* a lower() that knows the ASCII letters only
lower_ascii(s) ==
  [i \in 1..Len(s) |->
     IF \E k \in 1..26 : CasePairs[k][1] = s[i] THEN ToLower[s[i]] ELSE s[i]]

\* str.lower(): character by character; characters without case are kept
lower(s) == [i \in 1..Len(s) |-> IF s[i] \in DOMAIN ToLower THEN ToLower[s[i]] ELSE s[i]]

\* str.startswith(prefix)
startswith(s, prefix) ==
  /\ Len(prefix) <= Len(s)
  /\ SubSeq(s, 1, Len(prefix)) = prefix

\* the dict CITY_MAPPINGS: key -> search term
CITY_MAPPINGS ==
  [k \in {CITY_MAPPINGS_items[i][1] : i \in 1..Len(CITY_MAPPINGS_items)} |->
     CITY_MAPPINGS_items[CHOOSE i \in 1..Len(CITY_MAPPINGS_items) :
                           CITY_MAPPINGS_items[i][1] = k][2]]

-----------------------------------------------------------------------------
(* VietnameseCityNormalizer *)

\* only the tone mark of a circumflexed a is removed
replace_character_tone_only(c) ==
  IF c \in {"a^!", "a^'", "a^?", "a^~", "a^."}
  THEN "a^"
  ELSE IF \E k \in 1..Len(vietnamese_map) : vietnamese_map[k][1] = c
       THEN LET first == Min({k \in 1..Len(vietnamese_map) : vietnamese_map[k][1] = c})
            IN  vietnamese_map[first][2]
       ELSE c

\* The loop 'for viet_char, latin_char in vietnamese_map.items():
\* result = result.replace(viet_char, latin_char)' as it acts on one character
\* c of result.  str.replace with one-character arguments rewrites every
\* position on its own, and the first entry whose viet_char is c turns c into
\* its latin_char; no latin_char of the table is a viet_char of the table, so
\* the entries after it leave the position alone.
replace_character(c) ==
  IF \E k \in 1..Len(vietnamese_map) : vietnamese_map[k][1] = c
  THEN LET first == Min({k \in 1..Len(vietnamese_map) : vietnamese_map[k][1] = c})
       IN  vietnamese_map[first][2]
  ELSE c

\* the characters are replaced without text.lower()
remove_vietnamese_diacritics_no_lower(s) ==
  [i \in 1..Len(s) |-> replace_character(s[i])]

remove_vietnamese_diacritics(s) ==
  LET result == lower(s)
  IN  [i \in 1..Len(result) |-> replace_character(result[i])]

RECURSIVE strip_from(_, _)
\* the prefix loop of normalize_city_name from entry k of prefixes on
strip_from(city_no_prefix, k) ==
  IF k > Len(prefixes) THEN city_no_prefix
  ELSE strip_from(IF startswith(city_no_prefix, prefixes[k])
                  THEN strip(SubSeq(city_no_prefix, Len(prefixes[k]) + 1, Len(city_no_prefix)))
                  ELSE city_no_prefix,
                  k + 1)

remove_common_prefixes(city_lower) == strip_from(city_lower, 1)

\* lines 159-161: exact match of the lowercased name
check_exact_match(city_lower) ==
  IF city_lower \in DOMAIN CITY_MAPPINGS THEN <<CITY_MAPPINGS[city_lower]>> ELSE <<>>

\* lines 170-172: match of the name without prefix
check_without_prefix(queries, city_no_prefix) ==
  IF city_no_prefix \in DOMAIN CITY_MAPPINGS
  THEN Append(queries, CITY_MAPPINGS[city_no_prefix])
  ELSE queries

\* the name without prefix is added with its diacritics as well
add_without_diacritics_and_with(queries, city_no_prefix) ==
  LET without_diacritics == remove_vietnamese_diacritics(city_no_prefix)
      with_diacritics == IF city_no_prefix \notin Range(queries)
                         THEN Append(queries, city_no_prefix)
                         ELSE queries
  IN  IF without_diacritics \notin Range(with_diacritics)
      THEN Append(with_diacritics, without_diacritics)
      ELSE with_diacritics

\* lines 174-177: the name without diacritics
add_without_diacritics(queries, city_no_prefix) ==
  LET without_diacritics == remove_vietnamese_diacritics(city_no_prefix)
  IN  IF without_diacritics \notin Range(queries)
      THEN Append(queries, without_diacritics)
      ELSE queries

\* the original query added in lower case
add_original_lowercased(queries, original) ==
  IF lower(original) \notin Range(queries)
  THEN Append(queries, lower(original))
  ELSE queries

\* lines 179-181: the original query
add_original(queries, original) ==
  IF original \notin Range(queries) THEN Append(queries, original) ELSE queries

normalize_city_name(name) ==
  IF name = <<>> THEN <<name>>
  ELSE LET original == strip(name)
           city_lower == lower(original)
           city_no_prefix == remove_common_prefixes(city_lower)
       IN  add_original(
             add_without_diacritics(
               check_without_prefix(check_exact_match(city_lower), city_no_prefix),
               city_no_prefix),
             original)

\* is_vietnamese_city_query: vietnamese_prefixes
vietnamese_prefixes ==
  << <<"t", "h", "a!", "n", "h", " ", "p", "h", "o^'">>,
     <<"t", "p", ".">>,
     <<"t", "p", " ">>,
     <<"t", "i?", "n", "h">>,
     <<"h", "u", "y", "e^.", "n">>,
     <<"q", "u", "a^.", "n">> >>

\* the alias table is not looked at
is_vietnamese_city_query_no_alias(s) ==
  IF s = <<>> THEN FALSE
  ELSE LET query_lower == lower(s)
       IN  \/ \E k \in 1..Len(vietnamese_chars) : vietnamese_chars[k] \in Range(query_lower)
           \/ \E k \in 1..Len(vietnamese_prefixes) : startswith(query_lower, vietnamese_prefixes[k])

is_vietnamese_city_query(s) ==
  IF s = <<>> THEN FALSE
  ELSE LET has_diacritics ==
             \E k \in 1..Len(vietnamese_chars) : vietnamese_chars[k] \in Range(lower(s))
           query_lower == lower(s)
           has_prefix ==
             \E k \in 1..Len(vietnamese_prefixes) : startswith(query_lower, vietnamese_prefixes[k])
           in_mappings == query_lower \in DOMAIN CITY_MAPPINGS
       IN  has_diacritics \/ has_prefix \/ in_mappings

-----------------------------------------------------------------------------
(* InputValidator *)

\* the character class of the re.sub of sanitize_input
\* (the grave accent character itself is written "backtick")
dangerous_characters == {"<", ">", "\"", "'", "backtick"}

\* strip() comes before the re.sub
sanitize_input_strip_first(data) ==
  SelectSeq(strip(data), LAMBDA c : c \notin dangerous_characters)

\* sanitize_input on a str: re.sub(class, '', data) and strip()
sanitize_input(data) ==
  strip(SelectSeq(data, LAMBDA c : c \notin dangerous_characters))

\* A JSON value of a request body is a record of its Python type and its
\* value: a str holds its characters, a number holds an integer, None and a
\* key that the dict does not have hold nothing.
Str(chars) == [type |-> "str", value |-> chars]

Num(n) == [type |-> "number", value |-> n]

NoneValue == [type |-> "NoneType", value |-> <<>>]

\* a number with a fraction, in tenths: Float(57) is 5.7
Float(tenths) == [type |-> "float", value |-> tenths]

\* the floats inf (1e999 in a JSON text) and -inf, and nan
Infinity(sign) == [type |-> "float_inf", value |-> sign]

NaN == [type |-> "float_nan", value |-> 0]

Bool(b) == [type |-> "bool", value |-> b]

\* a list
List(items) == [type |-> "list", value |-> items]

\* An exception that leaves a function is written <<name>> where the
\* function's result would be.
Raise(exception) == <<exception>>

Raises(result) == Len(result) = 1

\* data.get(key) of a key that is not in data is None as well, but
\* 'key in data' tells the two apart
Absent == [type |-> "absent", value |-> <<>>]

\* sanitize_input on a dict of the keys location, lat, lon and days: every
\* value that is a str is sanitized
sanitize_input_dict(data) ==
  [key \in DOMAIN data |->
     IF data[key].type = "str" THEN Str(sanitize_input(data[key].value)) ELSE data[key]]

\* a dict with any keys, as the list of its items (key, value)
Dict(items) == [type |-> "dict", value |-> items]

RECURSIVE sanitize_input_value(_)
\* sanitize_input on any value: a str is cleaned, the values of a dict and
\* the items of a list are sanitized in turn, the keys of a dict and every
\* other value are kept
sanitize_input_value(data) ==
  IF data.type = "str" THEN Str(sanitize_input(data.value))
  ELSE IF data.type = "dict"
       THEN Dict([i \in 1..Len(data.value) |->
                    <<data.value[i][1], sanitize_input_value(data.value[i][2])>>])
  ELSE IF data.type = "list"
       THEN List([i \in 1..Len(data.value) |-> sanitize_input_value(data.value[i])])
  ELSE data

\* the truth value of 'if v:'
truthy(v) ==
  \/ v.type = "str" /\ v.value # <<>>
  \/ v.type = "number" /\ v.value # 0

\* the error message of a validator that found no error
NoError == "None"

Digits == <<"0", "1", "2", "3", "4", "5", "6", "7", "8", "9">>

DigitValue(c) == (CHOOSE k \in 1..Len(Digits) : Digits[k] = c) - 1

IsDigits(chars) == chars # <<>> /\ \A i \in 1..Len(chars) : \E k \in 1..Len(Digits) : Digits[k] = chars[i]

RECURSIVE DigitsValue(_)
DigitsValue(chars) ==
  IF chars = <<>> THEN 0
  ELSE 10 * DigitsValue(SubSeq(chars, 1, Len(chars) - 1)) + DigitValue(chars[Len(chars)])

\* a decimal numeral without fraction and exponent, as int() and float()
\* read it: blanks around it, an optional sign, digits
IsNumeral(chars) ==
  LET t == strip(chars)
  IN  /\ t # <<>>
      /\ IF t[1] \in {"-", "+"} THEN IsDigits(Tail(t)) ELSE IsDigits(t)

NumeralValue(chars) ==
  LET t == strip(chars)
  IN  IF t[1] = "-" THEN 0 - DigitsValue(Tail(t))
      ELSE IF t[1] = "+" THEN DigitsValue(Tail(t))
      ELSE DigitsValue(t)

\* float(v): raised is ValueError or TypeError; 'nan' is read as not-a-number
to_float(v) ==
  IF v.type = "number" THEN [raised |-> FALSE, nan |-> FALSE, value |-> v.value]
  ELSE IF v.type = "str" /\ IsNumeral(v.value)
       THEN [raised |-> FALSE, nan |-> FALSE, value |-> NumeralValue(v.value)]
  ELSE IF v.type = "str" /\ lower(strip(v.value)) = <<"n", "a", "n">>
       THEN [raised |-> FALSE, nan |-> TRUE, value |-> 0]
  ELSE [raised |-> TRUE, nan |-> FALSE, value |-> 0]

\* int(v): a float is cut off towards zero, True is 1; raised tells that an
\* exception was raised, and exception which one
to_int(v) ==
  IF v.type = "number" THEN [raised |-> FALSE, exception |-> "", value |-> v.value]
  ELSE IF v.type = "float"
       THEN [raised |-> FALSE, exception |-> "",
             value |-> IF v.value >= 0 THEN v.value \div 10 ELSE 0 - ((0 - v.value) \div 10)]
  ELSE IF v.type = "bool"
       THEN [raised |-> FALSE, exception |-> "", value |-> IF v.value THEN 1 ELSE 0]
  ELSE IF v.type = "str" /\ IsNumeral(v.value)
       THEN [raised |-> FALSE, exception |-> "", value |-> NumeralValue(v.value)]
  ELSE IF v.type = "float_inf"
       THEN [raised |-> TRUE, exception |-> "OverflowError", value |-> 0]
  ELSE IF v.type \in {"str", "float_nan"}
       THEN [raised |-> TRUE, exception |-> "ValueError", value |-> 0]
  ELSE [raised |-> TRUE, exception |-> "TypeError", value |-> 0]

MinLocationLength == 2

MaxLocationLength == 100

\* the character class of the re.match of line 89, as far as the characters
\* of the model go: the ASCII letters and the Vietnamese letters of
\* CasePairs, digits, whitespace, comma, full stop and hyphen
AllowedCharacters ==
  UNION {{CasePairs[k][1], CasePairs[k][2]} : k \in 1..Len(CasePairs)}
    \cup Range(Digits) \cup Whitespace \cup {",", ".", "-"}

\* validate_location_string: the pair (is_valid, error_message)
validate_location_string(location) ==
  IF ~truthy(location) \/ location.type # "str"
  THEN <<FALSE, "location must be a text string">>
  ELSE LET stripped == strip(location.value)
       IN  IF Len(stripped) < MinLocationLength
           THEN <<FALSE, "location must have at least 2 characters">>
           ELSE IF Len(stripped) > MaxLocationLength
           THEN <<FALSE, "location must not exceed 100 characters">>
           ELSE IF ~(Range(stripped) \subseteq AllowedCharacters)
           THEN <<FALSE, "location contains invalid characters">>
           ELSE <<TRUE, NoError>>

MinLatitude == -90

MaxLatitude == 90

MinLongitude == -180

MaxLongitude == 180

\* latitude is checked against the longitude range and the other way round
validate_coordinates_swapped(lat, lon) ==
  LET lat_float == to_float(lat)
      lon_float == to_float(lon)
  IN  IF lat_float.raised \/ lon_float.raised
      THEN <<FALSE, "coordinates must be numbers">>
      ELSE IF ~(~lat_float.nan /\ MinLongitude <= lat_float.value /\ lat_float.value <= MaxLongitude)
      THEN <<FALSE, "latitude must be between -90 and 90">>
      ELSE IF ~(~lon_float.nan /\ MinLatitude <= lon_float.value /\ lon_float.value <= MaxLatitude)
      THEN <<FALSE, "longitude must be between -180 and 180">>
      ELSE <<TRUE, NoError>>

\* validate_coordinates: the pair (is_valid, error_message); a comparison
\* with not-a-number is false
validate_coordinates(lat, lon) ==
  LET lat_float == to_float(lat)
      lon_float == to_float(lon)
  IN  IF lat_float.raised \/ lon_float.raised
      THEN <<FALSE, "coordinates must be numbers">>
      ELSE IF ~(~lat_float.nan /\ MinLatitude <= lat_float.value /\ lat_float.value <= MaxLatitude)
      THEN <<FALSE, "latitude must be between -90 and 90">>
      ELSE IF ~(~lon_float.nan /\ MinLongitude <= lon_float.value /\ lon_float.value <= MaxLongitude)
      THEN <<FALSE, "longitude must be between -180 and 180">>
      ELSE <<TRUE, NoError>>

DefaultDays == 7

MinDays == 1

MaxDays == 10

\* validate_days: the triple (is_valid, error_message, cleaned_days)
validate_days(days) ==
  IF days.type \in {"NoneType", "absent"} THEN <<TRUE, NoError, DefaultDays>>
  ELSE LET days_int == to_int(days)
       IN  IF days_int.raised /\ days_int.exception \in {"ValueError", "TypeError"}
           THEN <<FALSE, "days must be an integer", DefaultDays>>
           ELSE IF days_int.raised
           THEN Raise(days_int.exception)
           ELSE IF ~(MinDays <= days_int.value /\ days_int.value <= MaxDays)
           THEN <<FALSE, "days must be from 1 to 10", DefaultDays>>
           ELSE <<TRUE, NoError, days_int.value>>

\* A dict with the keys location, lat, lon and days, each of them in the
\* dict or not
EmptyDict == [location |-> Absent, lat |-> Absent, lon |-> Absent, days |-> Absent]

\* validate_location_request: the triple (is_valid, error_message,
\* cleaned_data), for a dict and for None ('if not data', line 29)
validate_location_request(data) ==
  IF data = EmptyDict \/ data = NoneValue
  THEN <<FALSE, "request data is empty", EmptyDict>>
  ELSE LET located ==
             IF truthy(data.location)
             THEN IF ~validate_location_string(data.location)[1]
                  THEN <<FALSE, validate_location_string(data.location)[2], EmptyDict>>
                  ELSE <<TRUE, NoError,
                         [EmptyDict EXCEPT !.location = Str(strip(data.location.value))]>>
             ELSE IF /\ data.lat.type \notin {"NoneType", "absent"}
                     /\ data.lon.type \notin {"NoneType", "absent"}
             THEN IF ~validate_coordinates(data.lat, data.lon)[1]
                  THEN <<FALSE, validate_coordinates(data.lat, data.lon)[2], EmptyDict>>
                  ELSE <<TRUE, NoError,
                         [EmptyDict EXCEPT !.lat = Num(to_float(data.lat).value),
                                           !.lon = Num(to_float(data.lon).value)]>>
             ELSE <<FALSE, "location or both lat and lon are needed", EmptyDict>>
       IN  IF ~located[1] \/ data.days.type = "absent"
           THEN located
           ELSE IF Raises(validate_days(data.days))
           THEN validate_days(data.days)
           ELSE IF ~validate_days(data.days)[1]
           THEN <<FALSE, validate_days(data.days)[2], EmptyDict>>
           ELSE <<TRUE, NoError, [located[3] EXCEPT !.days = Num(validate_days(data.days)[3])]>>

-----------------------------------------------------------------------------
(* The strings the operations are applied to *)

\* how many administrative prefixes a generated name starts with, at most
MaxPrefixes == 2

\* how many blanks surround a generated name, at most
MaxPad == 1

ToUpper == [c \in {CasePairs[k][2] : k \in 1..Len(CasePairs)} |->
              CasePairs[CHOOSE k \in 1..Len(CasePairs) : CasePairs[k][2] = c][1]]

upper(s) == [i \in 1..Len(s) |-> IF s[i] \in DOMAIN ToUpper THEN ToUpper[s[i]] ELSE s[i]]

\* first letter of every word in upper case, as in "Ha Noi"
title(s) ==
  [i \in 1..Len(s) |->
     IF (i = 1 \/ s[i - 1] \in Whitespace \cup {"."}) /\ s[i] \in DOMAIN ToUpper
     THEN ToUpper[s[i]] ELSE s[i]]

Blanks(n) == [i \in 1..n |-> " "]

\* place names, in the table and not, that follow the prefixes
Stems ==
  { <<>>,
    <<"h", "a!", " ", "n", "o^.", "i">>,
    <<"h", "c", "m">>,
    <<"v", "i", "n", "h">>,
    <<"h", "u", "e^'">>,
    <<"h", "o^!", " ", "c", "h", "i'", " ", "m", "i", "n", "h">>,
    <<"p", "a", "r", "i", "s">>,
    <<"dd", "o^!", "n", "g", " ", "x", "o", "a!", "i">> }

\* a prefix as it is typed: followed by a blank, or "tp." directly followed
\* by the name
TypedPrefixes ==
  {prefixes[k] \o <<" ">> : k \in 1..Len(prefixes)} \cup {<<"t", "p", ".">>}

\* the prefixes that are typed one after the other: the first two of the
\* list and two later ones
ChainPrefixes ==
  {prefixes[1] \o <<" ">>, prefixes[2], prefixes[6] \o <<" ">>, prefixes[7] \o <<" ">>}

RECURSIVE PrefixChains(_)
PrefixChains(n) ==
  IF n = 0 THEN {<<>>}
  ELSE LET shorter == PrefixChains(n - 1)
       IN  shorter \cup {p \o c : p \in ChainPrefixes, c \in shorter}

\* every key of CITY_MAPPINGS in lower, upper and title case
KeyNames ==
  UNION {{k, upper(k), title(k)} : k \in DOMAIN CITY_MAPPINGS}

\* names with prefixes, in lower, upper and title case, surrounded by blanks
PrefixedNames ==
  UNION {{Blanks(l) \o n \o Blanks(r), Blanks(l) \o upper(n) \o Blanks(r),
          Blanks(l) \o title(n) \o Blanks(r)} :
         l \in 0..MaxPad, r \in 0..MaxPad,
         n \in {c \o s : c \in PrefixChains(MaxPrefixes) \cup TypedPrefixes, s \in Stems}}

CityNames == KeyNames \cup PrefixedNames

-----------------------------------------------------------------------------
(* One call of normalize_city_name *)

\* no response has been returned yet
NoResponse ==
  [status |-> 0, keys |-> {}, success |-> FALSE, code |-> "", error_status |-> 0, data |-> <<>>]

NormIdle ==
  /\ city_name = <<>>
  /\ no_prefix = <<>>
  /\ normalized_queries = <<>>
  /\ norm_pc = "off"

TextIdle ==
  /\ text = <<>>
  /\ is_vietnamese = FALSE
  /\ folded = <<>>
  /\ refolded = <<>>
  /\ text_pc = "off"

ValidateIdle ==
  /\ val_data = <<>>
  /\ validation = <<>>
  /\ val_pc = "off"

CallIdle ==
  /\ argument = <<>>
  /\ returned = <<>>
  /\ returned_again = <<>>
  /\ call_pc = "off"

\* one worker, no other request
ConcIdle ==
  /\ worker = 1
  /\ suspended = <<>>

RouteIdle == route = "off"

WeatherIdle ==
  /\ is_json = FALSE
  /\ json_data = <<>>
  /\ cleaned_data = <<>>
  /\ weather_pc = "off"

SearchIdle ==
  /\ q = <<>>
  /\ query = <<>>
  /\ search_queries = <<>>
  /\ next_query = 1
  /\ all_results = <<>>
  /\ seen_ids = {}
  /\ pc = "off"
  /\ calls = <<>>
  /\ answers = <<>>
  /\ response = NoResponse

NormInit ==
  /\ city_name \in CityNames
  /\ no_prefix = <<>>
  /\ normalized_queries = <<>>
  /\ norm_pc = "call"
  /\ TextIdle
  /\ ValidateIdle
  /\ WeatherIdle
  /\ SearchIdle
  /\ CallIdle
  /\ ConcIdle
  /\ RouteIdle

\* the whole call; city_no_prefix (no_prefix here) is assigned on lines 164-168, after the
\* early return of lines 150-151
CallNormalize ==
  /\ norm_pc = "call"
  /\ no_prefix' = IF city_name = <<>> THEN no_prefix
                  ELSE remove_common_prefixes(lower(strip(city_name)))
  /\ normalized_queries' = normalize_city_name(city_name)
  /\ norm_pc' = "done"
  /\ UNCHANGED <<city_name, searchVars, textVars, validateVars, weatherVars, callVars, concVars, routeVars>>

NormNext == CallNormalize

NormSpec == NormInit /\ [][NormNext]_vars

-----------------------------------------------------------------------------
(* One call of is_vietnamese_city_query, or of remove_vietnamese_diacritics *)
(* followed by a second call on what the first returned                     *)

\* how long a text over SampleCharacters is, at most
MaxTextLen == 2

\* the queries of test_vietnamese_detection and test_diacritic_removal
ExampleTexts ==
  { <<"H", "a!", " ", "N", "o^.", "i">>,
    <<"H", "a", "n", "o", "i">>,
    <<"T", "P", ".", "H", "C", "M">>,
    <<"H", "o", " ", "C", "h", "i", " ", "M", "i", "n", "h">>,
    <<"DD", "a!", " ", "N", "a(~", "n", "g">>,
    <<"D", "a", " ", "N", "a", "n", "g">>,
    <<"T", "h", "a!", "n", "h", " ", "p", "h", "o^'", " ", "C", "a^!", "n", " ", "T", "h", "o+">>,
    <<"C", "a", "n", " ", "T", "h", "o">>,
    <<"C", "a^!", "n", " ", "T", "h", "o+">>,
    <<"H", "u", "e^'">>,
    <<"DD", "a!", " ", "L", "a.", "t">>,
    <<"V", "u~", "n", "g", " ", "T", "a!", "u">>,
    <<"P", "h", "u'", " ", "Q", "u", "o^'", "c">>,
    <<"Q", "u", "y", " ", "N", "h", "o+", "n">> }

\* queries without diacritics, and queries with a prefix that is not leading
PlainTexts ==
  { <<"t", "p", " ", "h", "c", "m">>,
    <<"T", "P", " ", "V", "i", "n", "h">>,
    <<"t", "p", " ", "x">>,
    <<"t", "p">>,
    <<"t", "p", "x">>,
    <<"t", "p", ".", "x">>,
    <<"t", "h", "a", "n", "h", " ", "p", "h", "o", " ", "v", "i", "n", "h">>,
    <<"t", "i", "n", "h">>,
    <<"h", "u", "y", "e", "n">>,
    <<"q", "u", "a", "n", " ", "1">>,
    <<"t", "h", "i", " ", "x", "a">>,
    <<"t", "h", "i", " ", "t", "r", "a", "n">>,
    <<"v", "i", "n", "h", " ">>,
    <<" ", "v", "i", "n", "h">>,
    <<"x", " ", "t", "h", "a!", "n", "h", " ", "p", "h", "o^'">>,
    <<"x", " ", "t", "p", ".">>,
    <<"p", "a", "r", "i", "s">> }

\* every character of CasePairs, in both cases
AllCharacters ==
  UNION {{CasePairs[k][1], CasePairs[k][2]} : k \in 1..Len(CasePairs)}

SampleCharacters == {"a", "Z", "a^!", "A(~", "dd", "DD", " ", "1"}

RECURSIVE TextsOver(_, _)
\* the texts of at most n characters of the set chars
TextsOver(chars, n) ==
  IF n = 0 THEN {<<>>}
  ELSE LET shorter == TextsOver(chars, n - 1)
       IN  shorter \cup {Append(t, c) : t \in shorter, c \in chars}

Texts ==
  ExampleTexts \cup PlainTexts \cup KeyNames
    \cup {<<c>> : c \in AllCharacters}
    \cup TextsOver(SampleCharacters, MaxTextLen)
    \cup {prefixes[k] \o <<"x">> : k \in 1..Len(prefixes)}
    \cup {upper(prefixes[k]) \o <<"X">> : k \in 1..Len(prefixes)}

TextInit ==
  /\ text \in Texts
  /\ is_vietnamese = FALSE
  /\ folded = <<>>
  /\ refolded = <<>>
  /\ text_pc = "call"
  /\ NormIdle
  /\ ValidateIdle
  /\ WeatherIdle
  /\ SearchIdle
  /\ CallIdle
  /\ ConcIdle
  /\ RouteIdle

CallIsVietnamese ==
  /\ text_pc = "call"
  /\ is_vietnamese' = is_vietnamese_city_query(text)
  /\ text_pc' = "classified"
  /\ UNCHANGED <<text, folded, refolded, normVars, searchVars, validateVars, weatherVars, callVars, concVars, routeVars>>

CallRemoveDiacritics ==
  /\ text_pc = "call"
  /\ folded' = remove_vietnamese_diacritics(text)
  /\ text_pc' = "folded"
  /\ UNCHANGED <<text, is_vietnamese, refolded, normVars, searchVars, validateVars, weatherVars, callVars, concVars, routeVars>>

CallRemoveDiacriticsAgain ==
  /\ text_pc = "folded"
  /\ refolded' = remove_vietnamese_diacritics(folded)
  /\ text_pc' = "refolded"
  /\ UNCHANGED <<text, is_vietnamese, folded, normVars, searchVars, validateVars, weatherVars, callVars, concVars, routeVars>>

TextNext ==
  \/ CallIsVietnamese
  \/ CallRemoveDiacritics
  \/ CallRemoveDiacriticsAgain

TextSpec == TextInit /\ [][TextNext]_vars

-----------------------------------------------------------------------------
(* One call of validate_location_request *)

\* a string of n times the letter a
LongName(n) == [i \in 1..n |-> "a"]

\* the values of the key location
LocationValues ==
  { Absent, NoneValue, Num(0), Num(5),
    Str(<<>>), Str(<<" ">>), Str(<<"H">>), Str(<<" ", "H", " ">>),
    Str(<<"H", "a", "n", "o", "i">>),
    Str(<<" ", "H", "a!", " ", "N", "o^.", "i", " ">>),
    Str(<<"H", "u", "e^'", ",", " ", "V", "N", "-", "1", ".">>),
    Str(<<"H", "a", "n", "o", "i", "!">>),
    Str(<<"a", ";", "b">>),
    Str(LongName(MaxLocationLength)),
    Str(<<" ">> \o LongName(MaxLocationLength) \o <<" ">>),
    Str(LongName(MaxLocationLength + 1)) }

\* the values of the keys lat and lon
CoordinateValues ==
  { Absent, NoneValue,
    Num(MinLongitude - 1), Num(MinLongitude), Num(MinLatitude - 1), Num(MinLatitude),
    Num(0), Num(21),
    Num(MaxLatitude), Num(MaxLatitude + 1), Num(MaxLongitude), Num(MaxLongitude + 1),
    Str(<<"2", "1">>), Str(<<"-", "9", "1">>), Str(<<"n", "a", "n">>),
    Str(<<"a", "b", "c">>), Str(<<>>) }

\* the values of the key days
DaysValues ==
  { Absent, NoneValue, Num(MinDays - 1), Num(MinDays), Num(5), Num(MaxDays),
    Num(MaxDays + 1), Str(<<"5">>), Str(<<"1", "5">>), Str(<<"a", "b", "c">>) }

\* requests with every kind of location and days next to a few coordinates,
\* and requests with every pair of coordinates next to no, or no valid,
\* location
LocationRequests ==
  [location : LocationValues,
   lat : {Absent, Num(21), Num(MaxLatitude + 1)},
   lon : {Absent, Num(MaxLongitude)},
   days : DaysValues]
    \cup
  [location : {Absent, NoneValue, Str(<<>>), Num(0), Str(<<"H">>)},
   lat : CoordinateValues,
   lon : CoordinateValues,
   days : {Absent, Num(5), Num(MaxDays + 1)}]

ValidateInit ==
  /\ val_data \in LocationRequests
  /\ validation = <<>>
  /\ val_pc = "call"
  /\ NormIdle
  /\ TextIdle
  /\ WeatherIdle
  /\ SearchIdle
  /\ CallIdle
  /\ ConcIdle
  /\ RouteIdle

CallValidateLocationRequest ==
  /\ val_pc = "call"
  /\ validation' = validate_location_request(val_data)
  /\ val_pc' = "done"
  /\ UNCHANGED <<val_data, normVars, textVars, searchVars, weatherVars, callVars, concVars, routeVars>>

ValidateNext == CallValidateLocationRequest

ValidateSpec == ValidateInit /\ [][ValidateNext]_vars

-----------------------------------------------------------------------------
(* One call of get_search_suggestions *)

\* 'sub in s' of two strings
contains(s, sub) ==
  \E i \in 0..(Len(s) - Len(sub)) : SubSeq(s, i + 1, i + Len(sub)) = sub

\* 'suggestions[:10]'
SuggestionLimit == 10

\* the three tests of the loop for one entry of CITY_MAPPINGS
suggested(item, query_lower, query_no_diacritics) ==
  \/ contains(item[1], query_lower)
  \/ contains(remove_vietnamese_diacritics(item[1]), query_no_diacritics)
  \/ contains(lower(item[2]), query_lower)

\* all suggestions are returned
get_search_suggestions_unlimited(s) ==
  IF s = <<>> \/ Len(s) < 2 THEN <<>>
  ELSE LET query_lower == lower(s)
           query_no_diacritics == remove_vietnamese_diacritics(query_lower)
           found == SelectSeq(CITY_MAPPINGS_items,
                              LAMBDA item : suggested(item, query_lower, query_no_diacritics))
       IN  [i \in 1..Len(found) |-> <<title(found[i][1]), found[i][2]>>]

\* get_search_suggestions: the list of (viet_name.title(), eng_name)
get_search_suggestions(s) ==
  IF s = <<>> \/ Len(s) < 2 THEN <<>>
  ELSE LET query_lower == lower(s)
           query_no_diacritics == remove_vietnamese_diacritics(query_lower)
           found == SelectSeq(CITY_MAPPINGS_items,
                              LAMBDA item : suggested(item, query_lower, query_no_diacritics))
           suggestions == [i \in 1..Len(found) |-> <<title(found[i][1]), found[i][2]>>]
       IN  SubSeq(suggestions, 1, Min({Len(suggestions), SuggestionLimit}))

\* how long the generated queries are, at most
MaxQueryLen == 2

\* the characters of the generated queries
QueryCharacters == {"h", "a", "a!", "n", "o^!", "H", " ", "x"}

RECURSIVE QueriesOfLength(_)
QueriesOfLength(n) ==
  IF n = 0 THEN {<<>>}
  ELSE {Append(s, c) : s \in QueriesOfLength(n - 1), c \in QueryCharacters}

\* the queries of test_search_suggestions, a few longer ones, and all
\* queries of MaxQueryLen characters at most
SuggestionQueries ==
  { <<"h", "a">>, <<"h", "o^!">>, <<"d", "a">>, <<"c", "a", "n">>, <<"n", "h", "a">>,
    <<"h", "a", "n", "o", "i">>, <<"H", "o", " ", "C", "h", "i">>, <<"dd", "a!">>,
    <<"H", "A!">>, <<"t", "p">>, <<"h", "a?", "i", " ", "p", "h", "o!", "n", "g">> }
    \cup UNION {QueriesOfLength(n) : n \in 0..MaxQueryLen}

SuggestInit ==
  /\ argument \in SuggestionQueries
  /\ returned = <<>>
  /\ returned_again = <<>>
  /\ call_pc = "call"
  /\ NormIdle
  /\ TextIdle
  /\ ValidateIdle
  /\ WeatherIdle
  /\ SearchIdle
  /\ ConcIdle
  /\ RouteIdle

CallGetSearchSuggestions ==
  /\ call_pc = "call"
  /\ returned' = get_search_suggestions(argument)
  /\ call_pc' = "done"
  /\ UNCHANGED <<argument, returned_again, normVars, textVars, validateVars, searchVars, weatherVars, concVars, routeVars>>

SuggestNext == CallGetSearchSuggestions

SuggestSpec == SuggestInit /\ [][SuggestNext]_vars

-----------------------------------------------------------------------------
(* One call of validate_days *)

\* the integers given as days lie in -MaxDaysArgument..MaxDaysArgument
MaxDaysArgument == 12

RECURSIVE NatStr(_)
\* the decimal digits of a natural number
NatStr(n) == IF n < 10 THEN <<Digits[n + 1]>> ELSE Append(NatStr(n \div 10), Digits[(n % 10) + 1])

\* str() of an integer
int_str(n) == IF n < 0 THEN <<"-">> \o NatStr(0 - n) ELSE NatStr(n)

\* what validate_days is called with: None, integers, floats, infinite
\* floats and nan, booleans, strings and a list
DaysArguments ==
  {NoneValue, NaN, Infinity(1), Infinity(-1), Bool(TRUE), Bool(FALSE), List(<<Num(5)>>)}
    \cup {Num(n) : n \in (0 - MaxDaysArgument)..MaxDaysArgument}
    \cup {Float(t) : t \in (0 - 10 * MaxDaysArgument)..(10 * MaxDaysArgument)}
    \cup {Str(int_str(n)) : n \in (0 - MaxDaysArgument)..MaxDaysArgument}
    \cup {Str(<<" ">> \o int_str(n) \o <<" ">>) : n \in 0..MaxDaysArgument}
    \cup {Str(<<"+">> \o int_str(n)) : n \in 0..MaxDaysArgument}
    \cup {Str(<<>>), Str(<<"a", "b", "c">>), Str(<<"5", ".", "7">>), Str(<<"5", " ", "7">>),
          Str(<<"-">>), Str(<<"1", "e", "1">>)}

DaysInit ==
  /\ argument \in DaysArguments
  /\ returned = <<>>
  /\ returned_again = <<>>
  /\ call_pc = "call"
  /\ NormIdle
  /\ TextIdle
  /\ ValidateIdle
  /\ WeatherIdle
  /\ SearchIdle
  /\ ConcIdle
  /\ RouteIdle

CallValidateDays ==
  /\ call_pc = "call"
  /\ returned' = validate_days(argument)
  /\ call_pc' = "done"
  /\ UNCHANGED <<argument, returned_again, normVars, textVars, validateVars, searchVars, weatherVars, concVars, routeVars>>

DaysNext == CallValidateDays

DaysSpec == DaysInit /\ [][DaysNext]_vars

-----------------------------------------------------------------------------
(* Two calls of sanitize_input, the second on the result of the first      *)

\* how deep dicts and lists are nested in the values given to sanitize_input
MaxDepth == 2

\* values that are neither dict nor list
Leaves ==
  { Str(<<"<", "a", ">">>), Str(<<" ", "a", "'", " ">>), Str(<<"<", " ", "b">>),
    Str(<<"a", " ", "\"", "backtick">>), Str(<<"H", "a!", " ", "N", "o^.", "i">>), Str(<<>>),
    Num(1), NoneValue, Bool(TRUE) }

\* the values that stand next to a nested value in a list or a dict
Siblings == {Str(<<"'", "x", " ">>), Str(<<"y">>), Num(2)}

\* the keys of the dicts
Keys == {<<"k">>, <<"<", "k", ">">>}

RECURSIVE Values(_)
\* the values nested depth deep at most
Values(depth) ==
  IF depth = 0 THEN Leaves
  ELSE Leaves
         \cup {List(<<v>>) : v \in Values(depth - 1)}
         \cup {List(<<w, v>>) : w \in Siblings, v \in Values(depth - 1)}
         \cup {Dict(<< <<k, v>> >>) : k \in Keys, v \in Values(depth - 1)}
         \cup {Dict(<< <<(<<"k">>), v>>, <<(<<"'", "j">>), w>> >>) :
                 w \in Siblings, v \in Values(depth - 1)}

SanitizeInit ==
  /\ argument \in Values(MaxDepth)
  /\ returned = <<>>
  /\ returned_again = <<>>
  /\ call_pc = "call"
  /\ NormIdle
  /\ TextIdle
  /\ ValidateIdle
  /\ WeatherIdle
  /\ SearchIdle
  /\ ConcIdle
  /\ RouteIdle

CallSanitizeInput ==
  /\ call_pc = "call"
  /\ returned' = sanitize_input_value(argument)
  /\ call_pc' = "done"
  /\ UNCHANGED <<argument, returned_again, normVars, textVars, validateVars, searchVars, weatherVars, concVars, routeVars>>

CallSanitizeInputAgain ==
  /\ call_pc = "done"
  /\ returned_again' = sanitize_input_value(returned)
  /\ call_pc' = "again"
  /\ UNCHANGED <<argument, returned, normVars, textVars, validateVars, searchVars, weatherVars, concVars, routeVars>>

SanitizeNext == CallSanitizeInput \/ CallSanitizeInputAgain

SanitizeSpec == SanitizeInit /\ [][SanitizeNext]_vars

-----------------------------------------------------------------------------
(* ResponseFormatter. A body is written [keys, success, code, error_status, *)
(* data]: keys are the keys of the dict, code and error_status are         *)
(* error.code and error.status of an error body; the texts of message and  *)
(* timestamp are left out.                                                 *)

\* 'status_code: int = 400'
DefaultStatusCode == 400

format_error(error_code, status_code) ==
  [keys |-> {"success", "error", "timestamp"}, success |-> FALSE, code |-> error_code,
   error_status |-> status_code, data |-> <<>>]

format_success(data) ==
  [keys |-> {"success", "data", "message", "timestamp"}, success |-> TRUE, code |-> "",
   error_status |-> 0, data |-> data]

\* 'return jsonify(body), status_code': the response is the body and the
\* HTTP status
jsonify(body, status_code) ==
  [status |-> status_code, keys |-> body.keys, success |-> body.success, code |-> body.code,
   error_status |-> body.error_status, data |-> body.data]

-----------------------------------------------------------------------------
(* app.py: the error handlers and the health check                         *)

\* exceptions: werkzeug's BadRequest has the attribute code, AttributeError
\* has no such attribute
BadRequest == [name |-> "BadRequest", code |-> 400]

AttributeError == [name |-> "AttributeError"]

\* the HTTP status is 500 whatever the exception was
handle_exception_always_500(error) ==
  LET status_code == IF "code" \in DOMAIN error THEN error.code ELSE 500
  IN  jsonify(format_error("UNHANDLED_EXCEPTION", status_code), 500)

\* lines 69-82: the handler of every exception no route handler caught
handle_exception(error) ==
  LET status_code == IF "code" \in DOMAIN error THEN error.code ELSE 500
  IN  jsonify(format_error("UNHANDLED_EXCEPTION", status_code), status_code)

-----------------------------------------------------------------------------
(* The upstream search endpoint (WEATHER_API_SEARCH_URL)                   *)

\* result.get('id') of a result that has no 'id'; the ids the upstream
\* endpoint assigns are positive
None == 0

\* the longest list the upstream endpoint answers with
MaxBlock == 11

\* 'if len(all_results) >= 10: break'
EnoughResults == 10

\* 'all_results[:10]'
ResultLimit == 10

\* A result is [id, name]; name stands for the fields the handler copies
\* (name, region, country, lat, lon, url) and is written <<k, p>>: what the
\* upstream endpoint put at position p of its answer to the k-th call.
Block(first, n, k) == [p \in 1..n |-> [id |-> first + p - 1, name |-> <<k, p>>]]

\* an answer with results that have no id, and with a repeated id
IdLess(k) ==
  << [id |-> None, name |-> <<k, 1>>], [id |-> 2, name |-> <<k, 2>>],
     [id |-> None, name |-> <<k, 3>>], [id |-> 2, name |-> <<k, 4>>] >>

\* the lists resp.json() may be for the k-th call
SearchResults(k) ==
  {Block(first, n, k) : first \in {1, 3}, n \in {0, 4, EnoughResults, MaxBlock}}
    \cup {IdLess(k)}

OK(body) == [kind |-> "ok", body |-> body]

Failed(kind) == [kind |-> kind, body |-> <<>>]

\* the non-success statuses the upstream endpoints answer with
ErrorStatuses == {400, 401, 403, 404, 500, 503}

\* an answer with a non-success status: raise_for_status() raises HTTPError
HTTPError(status_code) == [kind |-> "HTTPError", body |-> <<>>, status |-> status_code]

-----------------------------------------------------------------------------
(* search_cities: GET /api/weather/search                                  *)

\* the q parameters of the requests
PlainQueries ==
  { <<>>,
    <<"a">>,
    <<"t", "p", ".">>,
    <<"t", "i?", "n", "h">>,
    <<"h", "a!", " ", "n", "o^.", "i">>,
    <<"H", "a!", " ", "N", "o^.", "i">>,
    <<"t", "p", ".", "h", "c", "m">>,
    <<"v", "i", "n", "h">>,
    <<"p", "a", "r", "i", "s">>,
    <<"H", "a", "n", "o", "i">>,
    <<"t", "h", "a!", "n", "h", " ", "p", "h", "o^'", " ", "h", "a!", " ", "n", "o^.", "i">>,
    <<"t", "p", " ", "h", "o^!", " ", "c", "h", "i'", " ", "m", "i", "n", "h">>,
    <<"q", "u", "a^.", "n", " ", "1">> }

RawQueries ==
  PlainQueries
    \cup {<<" ">> \o s \o <<" ">> : s \in PlainQueries}
    \cup {<<"\"">> \o s \o <<"\"">> : s \in PlainQueries}
    \cup {<<"<">> \o s \o <<">", " ">> : s \in PlainQueries}

Init ==
  /\ q \in RawQueries
  /\ query = <<>>
  /\ search_queries = <<>>
  /\ next_query = 1
  /\ all_results = <<>>
  /\ seen_ids = {}
  /\ pc = "start"
  /\ calls = <<>>
  /\ answers = <<>>
  /\ response = NoResponse
  /\ NormIdle
  /\ TextIdle
  /\ ValidateIdle
  /\ WeatherIdle
  /\ CallIdle
  /\ ConcIdle
  /\ RouteIdle

\* lines 616-624: q is missing or blank
RejectMissingQuery ==
  /\ pc = "start"
  /\ strip(q) = <<>>
  /\ query' = strip(q)
  /\ response' = jsonify(format_error("MISSING_QUERY", 400), 400)
  /\ pc' = "done"
  /\ UNCHANGED <<q, search_queries, next_query, all_results, seen_ids, calls, answers, normVars, textVars, validateVars, weatherVars, callVars, concVars, routeVars>>

\* lines 626-632: q is shorter than 2 characters
RejectShortQuery ==
  /\ pc = "start"
  /\ strip(q) # <<>>
  /\ Len(strip(q)) < 2
  /\ query' = strip(q)
  /\ response' = jsonify(format_error("QUERY_TOO_SHORT", 400), 400)
  /\ pc' = "done"
  /\ UNCHANGED <<q, search_queries, next_query, all_results, seen_ids, calls, answers, normVars, textVars, validateVars, weatherVars, callVars, concVars, routeVars>>

\* every query goes through normalize_city_name
PrepareSearch_always_normalizes ==
  /\ pc = "start"
  /\ strip(q) # <<>>
  /\ Len(strip(q)) >= 2
  /\ LET sanitized == sanitize_input(strip(q))
     IN  /\ query' = sanitized
         /\ search_queries' = normalize_city_name(sanitized)
  /\ next_query' = 1
  /\ all_results' = <<>>
  /\ seen_ids' = {}
  /\ pc' = "loop"
  /\ UNCHANGED <<q, calls, answers, response, normVars, textVars, validateVars, weatherVars, callVars, concVars, routeVars>>

\* lines 634-651: sanitize, build the candidate list, empty accumulator
PrepareSearch ==
  /\ pc = "start"
  /\ strip(q) # <<>>
  /\ Len(strip(q)) >= 2
  /\ LET sanitized == sanitize_input(strip(q))
     IN  /\ query' = sanitized
         /\ search_queries' = IF is_vietnamese_city_query(sanitized)
                              THEN normalize_city_name(sanitized)
                              ELSE <<sanitized>>
  /\ next_query' = 1
  /\ all_results' = <<>>
  /\ seen_ids' = {}
  /\ pc' = "loop"
  /\ UNCHANGED <<q, calls, answers, response, normVars, textVars, validateVars, weatherVars, callVars, concVars, routeVars>>

\* all remaining queries are sent at once
SendQuery_all_at_once ==
  /\ pc = "loop"
  /\ next_query <= Len(search_queries)
  /\ calls' = calls \o SubSeq(search_queries, next_query, Len(search_queries))
  /\ pc' = "await"
  /\ UNCHANGED <<q, query, search_queries, next_query, all_results, seen_ids, answers,
                 response, normVars, textVars, validateVars, weatherVars, callVars, concVars, routeVars>>

\* lines 654-663: the next search_query goes to the upstream endpoint
SendQuery ==
  /\ pc = "loop"
  /\ next_query <= Len(search_queries)
  /\ calls' = Append(calls, search_queries[next_query])
  /\ pc' = "await"
  /\ UNCHANGED <<q, query, search_queries, next_query, all_results, seen_ids, answers,
                 response, normVars, textVars, validateVars, weatherVars, callVars, concVars, routeVars>>

RECURSIVE add_unique_last_wins(_, _, _, _)
\* a result whose id was seen replaces the one kept
add_unique_last_wins(results, seen, search_results, p) ==
  IF p > Len(search_results) THEN <<results, seen>>
  ELSE LET result == search_results[p]
           result_id == result.id
       IN  IF result_id \notin seen
           THEN add_unique_last_wins(Append(results, result), seen \cup {result_id},
                                     search_results, p + 1)
           ELSE add_unique_last_wins(
                  [i \in 1..Len(results) |->
                     IF results[i].id = result_id THEN result ELSE results[i]],
                  seen, search_results, p + 1)

RECURSIVE add_unique_keeps_idless(_, _, _, _)
\* a result without an id is never taken for a duplicate
add_unique_keeps_idless(results, seen, search_results, p) ==
  IF p > Len(search_results) THEN <<results, seen>>
  ELSE LET result == search_results[p]
           result_id == result.id
       IN  IF result_id = None \/ result_id \notin seen
           THEN add_unique_keeps_idless(Append(results, result), seen \cup {result_id},
                                        search_results, p + 1)
           ELSE add_unique_keeps_idless(results, seen, search_results, p + 1)

RECURSIVE add_unique(_, _, _, _)
\* lines 670-674: 'for result in search_results', from position p on;
\* yields <<all_results, seen_ids>>
add_unique(results, seen, search_results, p) ==
  IF p > Len(search_results) THEN <<results, seen>>
  ELSE LET result == search_results[p]
           result_id == result.id
       IN  IF result_id \notin seen
           THEN add_unique(Append(results, result), seen \cup {result_id}, search_results, p + 1)
           ELSE add_unique(results, seen, search_results, p + 1)

\* the loop stops only above 10 results
enough_above(results) == Len(results) > EnoughResults

\* lines 676-678: 'if len(all_results) >= 10: break'
enough(results) == Len(results) >= EnoughResults

\* lines 664-678: the answer is a list of results; merge it, then stop or go on
ReceiveResults ==
  /\ pc = "await"
  /\ \E search_results \in SearchResults(Len(calls)) :
       LET merged == add_unique(all_results, seen_ids, search_results, 1)
       IN  /\ answers' = Append(answers, OK(search_results))
           /\ all_results' = merged[1]
           /\ seen_ids' = merged[2]
           /\ IF enough(merged[1]) \/ next_query = Len(search_queries)
              THEN pc' = "format" /\ UNCHANGED next_query
              ELSE pc' = "loop" /\ next_query' = next_query + 1
  /\ UNCHANGED <<q, query, search_queries, calls, response, normVars, textVars, validateVars, weatherVars, callVars, concVars, routeVars>>

\* the failed candidate is skipped and the loop goes on
ReceiveHTTPError_skips ==
  /\ pc = "await"
  /\ \E status_code \in ErrorStatuses : answers' = Append(answers, HTTPError(status_code))
  /\ IF next_query = Len(search_queries)
     THEN pc' = "format" /\ UNCHANGED next_query
     ELSE pc' = "loop" /\ next_query' = next_query + 1
  /\ UNCHANGED <<q, query, search_queries, all_results, seen_ids, calls, response, normVars, textVars, validateVars, weatherVars, callVars, concVars, routeVars>>

\* an HTTP error ends the search with the results accumulated so far
ReceiveHTTPError_returns_partial ==
  /\ pc = "await"
  /\ \E status_code \in ErrorStatuses : answers' = Append(answers, HTTPError(status_code))
  /\ response' = jsonify(format_success([i \in 1..Len(all_results) |->
                                  [id |-> all_results[i].id, name |-> all_results[i].name]]), 200)
  /\ pc' = "done"
  /\ UNCHANGED <<q, query, search_queries, next_query, all_results, seen_ids, calls, normVars, textVars, validateVars, weatherVars, callVars, concVars, routeVars>>

\* lines 664, 702-709: raise_for_status() raises HTTPError
ReceiveHTTPError ==
  /\ pc = "await"
  /\ \E status_code \in ErrorStatuses : answers' = Append(answers, HTTPError(status_code))
  /\ response' = jsonify(format_error("SEARCH_ERROR", 500), 500)
  /\ pc' = "done"
  /\ UNCHANGED <<q, query, search_queries, next_query, all_results, seen_ids, calls, normVars, textVars, validateVars, weatherVars, callVars, concVars, routeVars>>

\* a query that timed out is sent again, twice at most
ReceiveTimeout_retries ==
  /\ pc = "await"
  /\ answers' = Append(answers, Failed("Timeout"))
  /\ IF Len(answers) < 2
     THEN /\ calls' = Append(calls, calls[Len(calls)])
          /\ UNCHANGED <<pc, response>>
     ELSE /\ response' = jsonify(format_error("TIMEOUT_ERROR", 504), 504)
          /\ pc' = "done"
          /\ UNCHANGED calls
  /\ UNCHANGED <<q, query, search_queries, next_query, all_results, seen_ids, normVars, textVars, validateVars, weatherVars, callVars, concVars, routeVars>>

\* a timeout ends the search with the results accumulated so far
ReceiveTimeout_returns_partial ==
  /\ pc = "await"
  /\ answers' = Append(answers, Failed("Timeout"))
  /\ response' = jsonify(format_success([i \in 1..Len(all_results) |->
                                  [id |-> all_results[i].id, name |-> all_results[i].name]]), 200)
  /\ pc' = "done"
  /\ UNCHANGED <<q, query, search_queries, next_query, all_results, seen_ids, calls, normVars, textVars, validateVars, weatherVars, callVars, concVars, routeVars>>

\* lines 663, 711-718: requests.get raises Timeout
ReceiveTimeout ==
  /\ pc = "await"
  /\ answers' = Append(answers, Failed("Timeout"))
  /\ response' = jsonify(format_error("TIMEOUT_ERROR", 504), 504)
  /\ pc' = "done"
  /\ UNCHANGED <<q, query, search_queries, next_query, all_results, seen_ids, calls, normVars, textVars, validateVars, weatherVars, callVars, concVars, routeVars>>

\* lines 663-674, 720-727: any other exception: no connection, or an answer
\* that is not JSON or not a list of objects
ReceiveUnexpected ==
  /\ pc = "await"
  /\ \E kind \in {"ConnectionError", "Malformed"} :
       answers' = Append(answers, Failed(kind))
  /\ response' = jsonify(format_error("INTERNAL_ERROR", 500), 500)
  /\ pc' = "done"
  /\ UNCHANGED <<q, query, search_queries, next_query, all_results, seen_ids, calls, normVars, textVars, validateVars, weatherVars, callVars, concVars, routeVars>>

\* the fields of a result that go to the frontend
format_result(result) == [id |-> result.id, name |-> result.name]

\* all accumulated results are returned
FormatResults_unlimited ==
  /\ pc = "format"
  /\ response' = jsonify(format_success([i \in 1..Len(all_results) |-> format_result(all_results[i])]), 200)
  /\ pc' = "done"
  /\ UNCHANGED <<q, query, search_queries, next_query, all_results, seen_ids, calls, answers,
                 normVars, textVars, validateVars, weatherVars, callVars, concVars, routeVars>>

\* lines 680-700: format at most 10 results and return them
FormatResults ==
  /\ pc = "format"
  /\ LET limited == SubSeq(all_results, 1, IF Len(all_results) < ResultLimit
                                           THEN Len(all_results) ELSE ResultLimit)
     IN  response' = jsonify(format_success([i \in 1..Len(limited) |-> format_result(limited[i])]), 200)
  /\ pc' = "done"
  /\ UNCHANGED <<q, query, search_queries, next_query, all_results, seen_ids, calls, answers,
                 normVars, textVars, validateVars, weatherVars, callVars, concVars, routeVars>>

Next ==
  \/ RejectMissingQuery
  \/ RejectShortQuery
  \/ PrepareSearch
  \/ SendQuery
  \/ ReceiveResults
  \/ ReceiveHTTPError
  \/ ReceiveTimeout
  \/ ReceiveUnexpected
  \/ FormatResults

Spec == Init /\ [][Next]_vars

\* lines 663-664: the upstream endpoint answers, or requests.get raises
ReceiveAnswer == ReceiveResults \/ ReceiveHTTPError \/ ReceiveTimeout \/ ReceiveUnexpected

\* WF_vars(PrepareSearch), with ENABLED <<PrepareSearch>>_vars written out:
\* it is the guard of the action, whose other conjuncts give a value to
\* every primed variable and change pc
PrepareSearchFair ==
  \/ []<>~(pc = "start" /\ strip(q) # <<>> /\ Len(strip(q)) >= 2)
  \/ []<><<PrepareSearch>>_vars

\* The worker runs the handler to its return statement: no step of it waits
\* for anything but the upstream answer, and requests.get(..., timeout=10)
\* (line 663) ends every wait with an answer or with an exception.
FairSpec ==
  /\ Spec
  /\ WF_vars(RejectMissingQuery)
  /\ WF_vars(RejectShortQuery)
  /\ PrepareSearchFair
  /\ WF_vars(SendQuery)
  /\ WF_vars(ReceiveAnswer)
  /\ WF_vars(FormatResults)

-----------------------------------------------------------------------------
(* search_cities: requests handled by several workers at the same time.    *)
(* Every call of the handler has its own request and its own local         *)
(* variables; the variables q .. response hold those of the worker that    *)
(* runs, and suspended holds those of the workers that wait.               *)

Workers == {1, 2}

\* the q parameters of the requests handled at the same time
ConcurrentQueries ==
  { <<>>,
    <<"a">>,
    <<"p", "a", "r", "i", "s">>,
    <<"v", "i", "n", "h">>,
    <<"h", "a!", " ", "n", "o^.", "i">> }

\* the request, the local variables and the response of the running worker
locals ==
  [q |-> q, query |-> query, search_queries |-> search_queries, next_query |-> next_query,
   all_results |-> all_results, seen_ids |-> seen_ids, pc |-> pc, calls |-> calls,
   answers |-> answers, response |-> response]

\* a request that has arrived, before the first line of the handler
Arrived(raw) ==
  [q |-> raw, query |-> <<>>, search_queries |-> <<>>, next_query |-> 1,
   all_results |-> <<>>, seen_ids |-> {}, pc |-> "start", calls |-> <<>>,
   answers |-> <<>>, response |-> NoResponse]

ConcurrentInit ==
  /\ worker = 1
  /\ q \in ConcurrentQueries
  /\ query = <<>>
  /\ search_queries = <<>>
  /\ next_query = 1
  /\ all_results = <<>>
  /\ seen_ids = {}
  /\ pc = "start"
  /\ calls = <<>>
  /\ answers = <<>>
  /\ response = NoResponse
  /\ suspended \in [Workers \ {1} -> {Arrived(raw) : raw \in ConcurrentQueries}]
  /\ NormIdle
  /\ TextIdle
  /\ ValidateIdle
  /\ WeatherIdle
  /\ CallIdle
  /\ RouteIdle

\* all_results and seen_ids are one list and one set for all workers
Switch_shared_accumulator ==
  \E w \in DOMAIN suspended :
    /\ suspended[w].pc # "done"
    /\ worker' = w
    /\ suspended' = [v \in (DOMAIN suspended \ {w}) \cup {worker} |->
                       IF v = worker THEN locals ELSE suspended[v]]
    /\ q' = suspended[w].q
    /\ query' = suspended[w].query
    /\ search_queries' = suspended[w].search_queries
    /\ next_query' = suspended[w].next_query
    /\ pc' = suspended[w].pc
    /\ calls' = suspended[w].calls
    /\ answers' = suspended[w].answers
    /\ response' = suspended[w].response
    /\ UNCHANGED <<all_results, seen_ids, normVars, textVars, validateVars, weatherVars,
                   callVars, routeVars>>

\* lines 607-727, 651-652: another worker goes on with its own request; the
\* running worker waits with its request, its local variables all_results,
\* seen_ids, search_queries and the rest
Switch ==
  \E w \in DOMAIN suspended :
    /\ suspended[w].pc # "done"
    /\ worker' = w
    /\ suspended' = [v \in (DOMAIN suspended \ {w}) \cup {worker} |->
                       IF v = worker THEN locals ELSE suspended[v]]
    /\ q' = suspended[w].q
    /\ query' = suspended[w].query
    /\ search_queries' = suspended[w].search_queries
    /\ next_query' = suspended[w].next_query
    /\ all_results' = suspended[w].all_results
    /\ seen_ids' = suspended[w].seen_ids
    /\ pc' = suspended[w].pc
    /\ calls' = suspended[w].calls
    /\ answers' = suspended[w].answers
    /\ response' = suspended[w].response
    /\ UNCHANGED <<normVars, textVars, validateVars, weatherVars, callVars, routeVars>>

\* the answers of the upstream endpoint to the requests handled at the same
\* time: three of the lists, the status 500, a timeout, no connection
ConcurrentAnswer ==
  answers # <<>> =>
    LET answer == answers[Len(answers)]
    IN  /\ answer.kind = "ok" =>
             answer.body \in {Block(1, 4, Len(answers)), Block(3, EnoughResults, Len(answers)),
                               IdLess(Len(answers))}
        /\ answer.kind = "HTTPError" => answer.status = 500
        /\ answer.kind # "Malformed"

ConcurrentNext ==
  \/ Next /\ ConcurrentAnswer'
  \/ Switch

ConcurrentSpec == ConcurrentInit /\ [][ConcurrentNext]_vars

-----------------------------------------------------------------------------
(* get_current_weather: POST /api/weather/current, with a JSON object as   *)
(* request body                                                            *)

searchLocals == <<q, search_queries, next_query, all_results, seen_ids, pc>>

\* str() of a float without fraction, as the f-string of line 329 formats it
float_str(n) == (IF n < 0 THEN <<"-">> \o NatStr(0 - n) ELSE NatStr(n)) \o <<".", "0">>

\* the bodies of the requests
WeatherRequests ==
  { EmptyDict,
    [EmptyDict EXCEPT !.location = Str(<<"H", "a", "n", "o", "i">>)],
    [EmptyDict EXCEPT !.location = Str(<<" ", "<", "H", "a!", " ", "N", "o^.", "i", ">">>)],
    [EmptyDict EXCEPT !.location = Str(<<"H">>)],
    [EmptyDict EXCEPT !.location = Str(<<"'", "H", "N", "'">>), !.days = Num(MaxDays + 1)],
    [EmptyDict EXCEPT !.location = Str(<<"\"", "\"">>), !.lat = Num(21), !.lon = Num(105)],
    [EmptyDict EXCEPT !.location = Str(<<"H", "u", "e^'">>), !.lat = Num(MaxLatitude + 1),
                      !.lon = Num(0)],
    [EmptyDict EXCEPT !.lat = Num(21), !.lon = Num(105)],
    [EmptyDict EXCEPT !.lat = Str(<<"-", "2", "1">>), !.lon = Str(<<"1", "0", "5">>),
                      !.days = Num(5)],
    [EmptyDict EXCEPT !.lat = Num(MaxLatitude + 1), !.lon = Num(0)],
    [EmptyDict EXCEPT !.lat = Num(21)],
    [EmptyDict EXCEPT !.location = Str(<<"H", "a", "n", "o", "i">>), !.days = Infinity(1)] }

\* a body that is no JSON text
MalformedBody == [type |-> "malformed"]

\* the body [1]
ListBody == List(<<Num(1)>>)

OverflowError == [name |-> "OverflowError"]

\* isinstance(data, dict)
IsDict(data) == DOMAIN data = DOMAIN EmptyDict

\* line 316: sanitize_input of the body; null and [1] hold no string and come
\* back as they are (lines 205-208)
sanitize_input_body(data) == IF IsDict(data) THEN sanitize_input_dict(data) ELSE data

WeatherInit ==
  /\ is_json \in BOOLEAN
  /\ json_data \in WeatherRequests \cup {MalformedBody, NoneValue, ListBody}
  /\ cleaned_data = <<>>
  /\ weather_pc = "start"
  /\ SearchIdle
  /\ NormIdle
  /\ TextIdle
  /\ ValidateIdle
  /\ CallIdle
  /\ ConcIdle
  /\ RouteIdle

\* lines 304-310: the request is not JSON
RejectNotJson ==
  /\ weather_pc = "start"
  /\ ~is_json
  /\ response' = jsonify(format_error("INVALID_CONTENT_TYPE", DefaultStatusCode), 400)
  /\ weather_pc' = "done"
  /\ UNCHANGED <<is_json, json_data, cleaned_data, query, calls, answers, searchLocals,
                 normVars, textVars, validateVars, callVars, concVars, routeVars>>

\* line 312: request.get_json() raises BadRequest for a body that is no JSON
\* text; no handler catches it
RaiseBadRequest ==
  /\ weather_pc = "start"
  /\ is_json
  /\ json_data = MalformedBody
  /\ response' = handle_exception(BadRequest)
  /\ weather_pc' = "done"
  /\ UNCHANGED <<is_json, json_data, cleaned_data, query, calls, answers, searchLocals,
                 normVars, textVars, validateVars, callVars, concVars, routeVars>>

\* lines 312-319, 33: the body is a list that is not empty, 'data.get' raises
\* AttributeError; no handler catches it
RaiseAttributeError ==
  /\ weather_pc = "start"
  /\ is_json
  /\ json_data = ListBody
  /\ response' = handle_exception(AttributeError)
  /\ weather_pc' = "done"
  /\ UNCHANGED <<is_json, json_data, cleaned_data, query, calls, answers, searchLocals,
                 normVars, textVars, validateVars, callVars, concVars, routeVars>>

\* lines 312-319, 59, 134: days is an infinite float, int(days) raises
\* OverflowError, which validate_days does not catch; no handler catches it
RaiseOverflowError ==
  /\ weather_pc = "start"
  /\ is_json
  /\ IsDict(json_data)
  /\ LET data == sanitize_input_dict(json_data)
     IN  /\ validate_location_request(data) = Raise("OverflowError")
         /\ json_data' = data
  /\ response' = handle_exception(OverflowError)
  /\ weather_pc' = "done"
  /\ UNCHANGED <<is_json, cleaned_data, query, calls, answers, searchLocals,
                 normVars, textVars, validateVars, callVars, concVars, routeVars>>

\* lines 312-322: sanitize and validate; the data is not valid
RejectInvalidData ==
  /\ weather_pc = "start"
  /\ is_json
  /\ IsDict(json_data) \/ json_data = NoneValue
  /\ LET data == sanitize_input_body(json_data)
     IN  /\ ~Raises(validate_location_request(data))
         /\ ~validate_location_request(data)[1]
         /\ json_data' = data
  /\ response' = jsonify(format_error("VALIDATION_ERROR", DefaultStatusCode), 400)
  /\ weather_pc' = "done"
  /\ UNCHANGED <<is_json, cleaned_data, query, calls, answers, searchLocals,
                 normVars, textVars, validateVars, callVars, concVars, routeVars>>

\* lines 312-340: sanitize and validate, build the query and send it to the
\* upstream endpoint
SendWeatherQuery ==
  /\ weather_pc = "start"
  /\ is_json
  /\ IsDict(json_data)
  /\ LET data == sanitize_input_dict(json_data)
         cleaned == validate_location_request(data)[3]
         built == IF cleaned.location # Absent
                  THEN cleaned.location.value
                  ELSE float_str(cleaned.lat.value) \o <<",">> \o float_str(cleaned.lon.value)
     IN  /\ ~Raises(validate_location_request(data))
         /\ validate_location_request(data)[1]
         /\ json_data' = data
         /\ cleaned_data' = cleaned
         /\ query' = built
         /\ calls' = Append(calls, built)
  /\ weather_pc' = "await"
  /\ UNCHANGED <<is_json, answers, response, searchLocals, normVars, textVars, validateVars, callVars, concVars, routeVars>>

\* lines 341-359: the answer is translated, enhanced and formatted
ReceiveWeather ==
  /\ weather_pc = "await"
  /\ answers' = Append(answers, OK(<<"current">>))
  /\ response' = jsonify(format_success(<<"current">>), 200)
  /\ weather_pc' = "done"
  /\ UNCHANGED <<is_json, json_data, cleaned_data, query, calls, searchLocals,
                 normVars, textVars, validateVars, callVars, concVars, routeVars>>

\* the status of the upstream answer is returned as it is
weather_error_passed_through(status_code) ==
  format_error("API_ERROR", status_code)

\* lines 361-381: the error response for the status of the upstream answer
weather_error(status_code) ==
  IF status_code = 400 THEN format_error("INVALID_LOCATION", 400)
  ELSE IF status_code = 401 \/ status_code = 403 THEN format_error("API_KEY_ERROR", 500)
  ELSE format_error("API_ERROR", 500)

\* lines 341, 361-381: raise_for_status() raises HTTPError
ReceiveWeatherHTTPError ==
  /\ weather_pc = "await"
  /\ \E status_code \in ErrorStatuses :
       /\ answers' = Append(answers, HTTPError(status_code))
       /\ response' = jsonify(weather_error(status_code), weather_error(status_code).error_status)
  /\ weather_pc' = "done"
  /\ UNCHANGED <<is_json, json_data, cleaned_data, query, calls, searchLocals,
                 normVars, textVars, validateVars, callVars, concVars, routeVars>>

\* lines 340-353, 383-390: any other exception: a timeout, no connection, or
\* an answer that cannot be decoded, translated or formatted
ReceiveWeatherUnexpected ==
  /\ weather_pc = "await"
  /\ \E kind \in {"Timeout", "ConnectionError", "Malformed"} :
       answers' = Append(answers, Failed(kind))
  /\ response' = jsonify(format_error("INTERNAL_ERROR", 500), 500)
  /\ weather_pc' = "done"
  /\ UNCHANGED <<is_json, json_data, cleaned_data, query, calls, searchLocals,
                 normVars, textVars, validateVars, callVars, concVars, routeVars>>

WeatherNext ==
  \/ RejectNotJson
  \/ RaiseBadRequest
  \/ RaiseAttributeError
  \/ RaiseOverflowError
  \/ RejectInvalidData
  \/ SendWeatherQuery
  \/ ReceiveWeather
  \/ ReceiveWeatherHTTPError
  \/ ReceiveWeatherUnexpected

-----------------------------------------------------------------------------
(* health_check, and the requests no route handler takes                   *)

RouteInit ==
  /\ route \in {"health", "no_route", "wrong_method"}
  /\ SearchIdle
  /\ WeatherIdle
  /\ NormIdle
  /\ TextIdle
  /\ ValidateIdle
  /\ CallIdle
  /\ ConcIdle

\* lines 1624-1631: GET /api/health; the body is not built by
\* ResponseFormatter and has the keys status, message, weatherapi_configured
health_check ==
  /\ route = "health"
  /\ response' = jsonify([keys |-> {"status", "message", "weatherapi_configured"},
                          success |-> FALSE, code |-> "", error_status |-> 0,
                          data |-> <<>>], 200)
  /\ route' = "done"
  /\ UNCHANGED <<query, calls, answers, searchLocals, normVars, textVars, validateVars,
                 weatherVars, callVars, concVars>>

\* lines 38-46: no route matches the path
not_found ==
  /\ route = "no_route"
  /\ response' = jsonify(format_error("NOT_FOUND", 404), 404)
  /\ route' = "done"
  /\ UNCHANGED <<query, calls, answers, searchLocals, normVars, textVars, validateVars,
                 weatherVars, callVars, concVars>>

\* lines 48-56: the route does not take the method
method_not_allowed ==
  /\ route = "wrong_method"
  /\ response' = jsonify(format_error("METHOD_NOT_ALLOWED", 405), 405)
  /\ route' = "done"
  /\ UNCHANGED <<query, calls, answers, searchLocals, normVars, textVars, validateVars,
                 weatherVars, callVars, concVars>>

RouteNext ==
  \/ health_check
  \/ not_found
  \/ method_not_allowed

-----------------------------------------------------------------------------
(* One request to the backend *)

ApiInit == Init \/ WeatherInit \/ RouteInit

ApiNext == Next \/ WeatherNext \/ RouteNext

ApiSpec == ApiInit /\ [][ApiNext]_vars

-----------------------------------------------------------------------------
(* Properties *)

\* C1: for every input, the list normalize_city_name returns contains no
\* two equal entries
C1_NoDuplicateCandidates ==
  norm_pc = "done" =>
    \A i, j \in 1..Len(normalized_queries) :
      i # j => normalized_queries[i] # normalized_queries[j]

\* C2: no request sent to the upstream search endpoint carries an empty q
C2_NeverEmptyUpstreamQuery ==
  \A i \in 1..Len(calls) : calls[i] # <<>>

\* some candidate query of the request has failed
SomeQueryFailed == \E i \in 1..Len(answers) : answers[i].kind # "ok"

\* C3 as stated: a candidate query that fails does not turn the whole
\* search into an error
C3_FailureNotFatal ==
  (pc = "done" /\ SomeQueryFailed) => response.success

\* C3 as amended: a candidate query that fails ends the request with a single
\* error response (500 or 504); it is the last query of the request
C3_FailureAbortsWithError ==
  \A i \in 1..Len(answers) :
    answers[i].kind # "ok" =>
      /\ i = Len(answers)
      /\ Len(calls) = i
      /\ pc = "done"
      /\ ~response.success
      /\ response.status \in {500, 504}
      /\ response.data = <<>>

\* a later candidate fails after an earlier one has brought results, with
\* candidates left to try
C3_Witness ==
  /\ pc = "done"
  /\ Len(answers) >= 2
  /\ answers[1].kind = "ok"
  /\ answers[Len(answers)].kind # "ok"
  /\ Len(all_results) > 0
  /\ Len(calls) < Len(search_queries)

\* C4: a query is issued only while the accumulator is below the target
\* count of 10: once the target is reached no further candidate is queried
C4_EarlyStop ==
  [][Len(calls') > Len(calls) => Len(all_results) < 10]_vars

\* the first candidate alone brings 10 results or more, and the second
\* candidate is never queried
C4_Witness ==
  /\ pc = "done"
  /\ response.success
  /\ Len(calls) = 1
  /\ Len(search_queries) >= 2
  /\ Len(all_results) >= 10

RECURSIVE ReceivedFrom(_)
\* all results received so far from answer k on, in the order received
ReceivedFrom(k) ==
  IF k > Len(answers) THEN <<>> ELSE answers[k].body \o ReceivedFrom(k + 1)

Received == ReceivedFrom(1)

\* the position in the list received at which an id was first seen
FirstSeen(received, id) ==
  Min({p \in 1..Len(received) : received[p].id = id})

\* C5: the returned list holds at most one result per id, and it is the first
\* result received with that id (earliest query, earliest position)
C5_DedupFirstSeenWins ==
  (pc = "done" /\ response.success) =>
    LET received == Received
        data == response.data
    IN  /\ \A i, j \in 1..Len(data) : i # j => data[i].id # data[j].id
        /\ \A i \in 1..Len(data) :
             /\ \E p \in 1..Len(received) : received[p].id = data[i].id
             /\ received[FirstSeen(received, data[i].id)].name = data[i].name

\* an id came with two different answers and is in the returned list
C5_Witness ==
  /\ pc = "done"
  /\ response.success
  /\ \E i \in 1..Len(response.data) :
       \E p1, p2 \in 1..Len(Received) :
         /\ Received[p1].id = response.data[i].id
         /\ Received[p2].id = response.data[i].id
         /\ Received[p1].name[1] < Received[p2].name[1]

\* C6: the returned list has at most 10 entries, in the order in which their
\* ids were first received (each entry's id was first seen before the id of
\* the entry that follows it)
C6_LimitAndFirstSeenOrder ==
  (pc = "done" /\ response.success) =>
    LET received == Received
        data == response.data
    IN  /\ Len(data) <= 10
        /\ \A i \in 1..Len(data) :
             \E p \in 1..Len(received) : received[p].id = data[i].id
        /\ \A i \in 1..(Len(data) - 1) :
             FirstSeen(received, data[i].id) < FirstSeen(received, data[i + 1].id)

\* more than 10 results were accumulated over several queries and the
\* returned list is cut
C6_Witness ==
  /\ pc = "done"
  /\ response.success
  /\ Len(answers) >= 2
  /\ Len(all_results) > 10
  /\ Len(response.data) = 10

\* C7: the queries sent are the candidates in list order, at most one is
\* outstanding, and one is sent only when every earlier answer is received
\* and merged
C7_SequentialInOrder ==
  /\ Len(calls) <= Len(search_queries)
  /\ \A i \in 1..Len(calls) : calls[i] = search_queries[i]
  /\ Len(answers) <= Len(calls)
  /\ Len(calls) <= Len(answers) + 1
  /\ (Len(calls) = Len(answers) + 1) <=> (pc = "await")
  /\ \A i \in 1..Len(answers) :
       answers[i].kind = "ok" =>
         \A p \in 1..Len(answers[i].body) : answers[i].body[p].id \in seen_ids

\* the third candidate is being queried after the first two have brought
\* results
C7_Witness ==
  /\ pc = "await"
  /\ Len(calls) = 3
  /\ Len(answers) = 2
  /\ Len(all_results) > 0
  /\ calls[1] # calls[3]

\* s is k with some of its letters in upper case
IsCaseVariant(s, k) ==
  /\ Len(s) = Len(k)
  /\ \A i \in 1..Len(k) :
       s[i] = k[i] \/ (k[i] \in DOMAIN ToUpper /\ s[i] = ToUpper[k[i]])

\* C8: for a key k of CITY_MAPPINGS in any case, the first entry of
\* normalize_city_name(k) is CITY_MAPPINGS[k]
C8_AliasKeyFirst ==
  norm_pc = "done" =>
    \A k \in DOMAIN CITY_MAPPINGS :
      IsCaseVariant(city_name, k) => normalized_queries[1] = CITY_MAPPINGS[k]

\* a key with diacritics, given in upper case
C8_Witness ==
  /\ norm_pc = "done"
  /\ \E k \in DOMAIN CITY_MAPPINGS :
       /\ city_name = upper(k)
       /\ \E i \in 1..Len(k) : \E m \in 1..Len(vietnamese_map) : k[i] = vietnamese_map[m][1]
       /\ normalized_queries[1] = CITY_MAPPINGS[k]

\* C9: for a non-empty input, the list contains the trimmed input in its
\* original case
C9_ContainsTrimmedOriginal ==
  (norm_pc = "done" /\ city_name # <<>>) =>
    \E i \in 1..Len(normalized_queries) : normalized_queries[i] = strip(city_name)

\* an input with surrounding blanks and upper-case letters, whose trimmed
\* form is the last of three or more candidates
C9_Witness ==
  /\ norm_pc = "done"
  /\ strip(city_name) # city_name
  /\ \E i \in 1..Len(city_name) : city_name[i] \in DOMAIN ToLower
  /\ Len(normalized_queries) >= 3
  /\ normalized_queries[Len(normalized_queries)] = strip(city_name)

\* list.append(value) guarded by 'value not in list'
AppendIfAbsent(list, value) ==
  IF \E i \in 1..Len(list) : list[i] = value THEN list ELSE Append(list, value)

\* C10: the candidates are, in this order, the search term of the lowercased
\* name, the search term of the name without prefix, the name without prefix
\* and without diacritics, and the original name, each appended only if it
\* is not yet in the list
C10_FixedOrderAppendIfAbsent ==
  (norm_pc = "done" /\ city_name # <<>>) =>
    LET original == strip(city_name)
        city_lower == lower(original)
        city_no_prefix == remove_common_prefixes(city_lower)
        step1 == IF city_lower \in DOMAIN CITY_MAPPINGS
                 THEN AppendIfAbsent(<<>>, CITY_MAPPINGS[city_lower]) ELSE <<>>
        step2 == IF city_no_prefix \in DOMAIN CITY_MAPPINGS
                 THEN AppendIfAbsent(step1, CITY_MAPPINGS[city_no_prefix]) ELSE step1
        step3 == AppendIfAbsent(step2, remove_vietnamese_diacritics(city_no_prefix))
        step4 == AppendIfAbsent(step3, original)
    IN  normalized_queries = step4

\* C11: for every input the returned candidate list has between 1 and 4
\* entries
C11_OneToFourCandidates ==
  norm_pc = "done" =>
    (Len(normalized_queries) >= 1 /\ Len(normalized_queries) <= 4)

\* all four steps have added an entry for a prefixed name that is a key of
\* the table
C11_Witness ==
  /\ norm_pc = "done"
  /\ Len(normalized_queries) = 4
  /\ lower(strip(city_name)) \in DOMAIN CITY_MAPPINGS
  /\ no_prefix # lower(strip(city_name))

\* the prefixes of the list that a string starts with
MatchingPrefixes(s) == {k \in 1..Len(prefixes) : startswith(s, prefixes[k])}

\* the string without its single longest leading prefix, blanks trimmed
StripOnePrefix(s) ==
  IF MatchingPrefixes(s) = {} THEN s
  ELSE LET longest == CHOOSE k \in MatchingPrefixes(s) :
                        \A j \in MatchingPrefixes(s) : Len(prefixes[j]) <= Len(prefixes[k])
       IN  strip(SubSeq(s, Len(prefixes[longest]) + 1, Len(s)))

\* C12: the string used for the second lookup and for folding is the
\* lowercased input without its single longest leading prefix, and no more
\* than that prefix is removed
C12_SinglePrefixStripped ==
  (norm_pc = "done" /\ city_name # <<>>) =>
    no_prefix = StripOnePrefix(lower(strip(city_name)))

\* C17: an empty or blank input is refused: no candidate list that contains
\* the empty string is returned for it
C17_EmptyInputRefused ==
  (norm_pc = "done" /\ strip(city_name) = <<>>) =>
    <<>> \notin Range(normalized_queries)

\* the Vietnamese characters with a diacritic, lower and upper case
DiacriticCharacters == Range(vietnamese_chars) \cup Range(upper(vietnamese_chars))

HasDiacritic(s) == \E i \in 1..Len(s) : s[i] \in DiacriticCharacters

\* the administrative prefixes as the classifier is described with
SpecPrefixes ==
  { <<"t", "h", "a!", "n", "h", " ", "p", "h", "o^'">>,
    <<"t", "p", ".">>,
    <<"t", "i?", "n", "h">>,
    <<"h", "u", "y", "e^.", "n">>,
    <<"q", "u", "a^.", "n">>,
    <<"t", "h", "i.", " ", "x", "a~">>,
    <<"t", "h", "i.", " ", "t", "r", "a^'", "n">> }

\* "tp" followed by a blank
TpBlank == <<"t", "p", " ">>

StartsWithOneOf(s, prefix_set) == \E p \in prefix_set : startswith(lower(s), p)

\* C13 as stated: the classifier is true exactly for a query with a
\* diacritic character, a query that starts with one of the seven prefixes
\* (thanh pho, tp., tinh, huyen, quan, thi xa, thi tran in their diacritic
\* spellings) and a query whose lower case is an alias key
C13_ClassifierAsStated ==
  text_pc = "classified" =>
    (is_vietnamese <=>
       \/ HasDiacritic(text)
       \/ StartsWithOneOf(text, SpecPrefixes)
       \/ lower(text) \in DOMAIN CITY_MAPPINGS)

\* C13 as amended: the same with "tp" followed by a blank among the
\* prefixes
C13_ClassifierWithTpBlank ==
  text_pc = "classified" =>
    (is_vietnamese <=>
       \/ HasDiacritic(text)
       \/ StartsWithOneOf(text, SpecPrefixes \cup {TpBlank})
       \/ lower(text) \in DOMAIN CITY_MAPPINGS)

\* a query without diacritics that is no alias key is classified as
\* Vietnamese for its leading "tp "
C13_Witness ==
  /\ text_pc = "classified"
  /\ is_vietnamese
  /\ ~HasDiacritic(text)
  /\ lower(text) \notin DOMAIN CITY_MAPPINGS
  /\ startswith(lower(text), TpBlank)
  /\ Len(text) > Len(TpBlank)

\* C14: remove_vietnamese_diacritics is idempotent: applied to its own
\* result it returns that result
C14_FoldIdempotent ==
  text_pc = "refolded" => refolded = folded

\* the first call has replaced a character and the second call has run
C14_Witness ==
  /\ text_pc = "refolded"
  /\ HasDiacritic(text)
  /\ folded # lower(text)
  /\ refolded = folded

\* the base Latin letter of every Vietnamese character with a diacritic
BaseLetters ==
  << <<"a!", "a">>, <<"a'", "a">>, <<"a?", "a">>, <<"a~", "a">>, <<"a.", "a">>, <<"a(", "a">>,
     <<"a(!", "a">>, <<"a('", "a">>, <<"a(?", "a">>, <<"a(~", "a">>, <<"a(.", "a">>, <<"a^", "a">>,
     <<"a^!", "a">>, <<"a^'", "a">>, <<"a^?", "a">>, <<"a^~", "a">>, <<"a^.", "a">>, <<"dd", "d">>,
     <<"e!", "e">>, <<"e'", "e">>, <<"e?", "e">>, <<"e~", "e">>, <<"e.", "e">>, <<"e^", "e">>,
     <<"e^!", "e">>, <<"e^'", "e">>, <<"e^?", "e">>, <<"e^~", "e">>, <<"e^.", "e">>, <<"i!", "i">>,
     <<"i'", "i">>, <<"i?", "i">>, <<"i~", "i">>, <<"i.", "i">>, <<"o!", "o">>, <<"o'", "o">>,
     <<"o?", "o">>, <<"o~", "o">>, <<"o.", "o">>, <<"o^", "o">>, <<"o^!", "o">>, <<"o^'", "o">>,
     <<"o^?", "o">>, <<"o^~", "o">>, <<"o^.", "o">>, <<"o+", "o">>, <<"o+!", "o">>, <<"o+'", "o">>,
     <<"o+?", "o">>, <<"o+~", "o">>, <<"o+.", "o">>, <<"u!", "u">>, <<"u'", "u">>, <<"u?", "u">>,
     <<"u~", "u">>, <<"u.", "u">>, <<"u+", "u">>, <<"u+!", "u">>, <<"u+'", "u">>, <<"u+?", "u">>,
     <<"u+~", "u">>, <<"u+.", "u">>, <<"y!", "y">>, <<"y'", "y">>, <<"y?", "y">>, <<"y~", "y">>,
     <<"y.", "y">>, <<"A!", "a">>, <<"A'", "a">>, <<"A?", "a">>, <<"A~", "a">>, <<"A.", "a">>,
     <<"A(", "a">>, <<"A(!", "a">>, <<"A('", "a">>, <<"A(?", "a">>, <<"A(~", "a">>, <<"A(.", "a">>,
     <<"A^", "a">>, <<"A^!", "a">>, <<"A^'", "a">>, <<"A^?", "a">>, <<"A^~", "a">>, <<"A^.", "a">>,
     <<"DD", "d">>, <<"E!", "e">>, <<"E'", "e">>, <<"E?", "e">>, <<"E~", "e">>, <<"E.", "e">>,
     <<"E^", "e">>, <<"E^!", "e">>, <<"E^'", "e">>, <<"E^?", "e">>, <<"E^~", "e">>, <<"E^.", "e">>,
     <<"I!", "i">>, <<"I'", "i">>, <<"I?", "i">>, <<"I~", "i">>, <<"I.", "i">>, <<"O!", "o">>,
     <<"O'", "o">>, <<"O?", "o">>, <<"O~", "o">>, <<"O.", "o">>, <<"O^", "o">>, <<"O^!", "o">>,
     <<"O^'", "o">>, <<"O^?", "o">>, <<"O^~", "o">>, <<"O^.", "o">>, <<"O+", "o">>, <<"O+!", "o">>,
     <<"O+'", "o">>, <<"O+?", "o">>, <<"O+~", "o">>, <<"O+.", "o">>, <<"U!", "u">>, <<"U'", "u">>,
     <<"U?", "u">>, <<"U~", "u">>, <<"U.", "u">>, <<"U+", "u">>, <<"U+!", "u">>, <<"U+'", "u">>,
     <<"U+?", "u">>, <<"U+~", "u">>, <<"U+.", "u">>, <<"Y!", "y">>, <<"Y'", "y">>, <<"Y?", "y">>,
     <<"Y~", "y">>, <<"Y.", "y">> >>

BaseLetter(c) == BaseLetters[CHOOSE k \in 1..Len(BaseLetters) : BaseLetters[k][1] = c][2]

\* C15: the result has the length of the lowercased input, a character with
\* a diacritic (either case) has become its lowercase base letter, every
\* other character is only lowercased, and no character of the table is
\* left in the result
C15_FoldCharacterWise ==
  text_pc = "folded" =>
    /\ Len(folded) = Len(lower(text))
    /\ \A i \in 1..Len(text) :
         /\ text[i] \in DiacriticCharacters => folded[i] = BaseLetter(text[i])
         /\ text[i] \notin DiacriticCharacters => folded[i] = lower(<<text[i]>>)[1]
         /\ \A k \in 1..Len(vietnamese_map) : folded[i] # vietnamese_map[k][1]

\* a text with an upper case diacritic character and a plain upper case
\* letter has been folded
C15_Witness ==
  /\ text_pc = "folded"
  /\ \E i \in 1..Len(text) :
       text[i] \in Range(upper(vietnamese_chars)) /\ folded[i] = BaseLetter(text[i])
  /\ \E i \in 1..Len(text) :
       text[i] \notin DiacriticCharacters /\ folded[i] # text[i]

\* C16: a network error, a timeout or a non-2xx status on a candidate query
\* ends the request with an error response (success false, status 500 or
\* 504), never with a success response
C16_UpstreamFailureIsReported ==
  (\E i \in 1..Len(answers) : answers[i].kind \in {"ConnectionError", "Timeout", "HTTPError"}) =>
    /\ pc = "done"
    /\ response.success = FALSE
    /\ response.status \in {500, 504}

\* the second candidate query of a request has timed out and the request
\* has ended with 504
C16_Witness ==
  /\ pc = "done"
  /\ Len(answers) = 2
  /\ answers[2].kind = "Timeout"
  /\ response.status = 504

\* C18: a query the classifier rejects is searched as it is: the candidate
\* list is the sanitized query alone and exactly one upstream request, with
\* that query, is issued
C18_PlainQuerySingleSearch ==
  (pc \in {"loop", "await", "format", "done"} /\ response.status # 400
     /\ ~is_vietnamese_city_query(query)) =>
    /\ search_queries = <<query>>
    /\ pc = "loop" => calls = <<>>
    /\ pc # "loop" => calls = <<query>>

\* a search for a query the classifier rejects has succeeded after one
\* upstream request, where normalize_city_name would have given more
\* candidates
C18_Witness ==
  /\ pc = "done"
  /\ response.success
  /\ ~is_vietnamese_city_query(query)
  /\ calls = <<query>>
  /\ Len(normalize_city_name(query)) > 1

\* a location string of 2 to 100 characters after trimming, of allowed
\* characters only
IsValidLocation(v) ==
  /\ v.type = "str"
  /\ Len(strip(v.value)) >= 2
  /\ Len(strip(v.value)) <= 100
  /\ Range(strip(v.value)) \subseteq AllowedCharacters

\* no location: the key is missing or its value is empty (None, '' or 0)
HasNoLocation(v) ==
  \/ v.type \in {"absent", "NoneType"}
  \/ v.type = "str" /\ v.value = <<>>
  \/ v.type = "number" /\ v.value = 0

\* a number, or a numeral, between low and high
IsNumberWithin(v, low, high) ==
  /\ ~to_float(v).raised
  /\ ~to_float(v).nan
  /\ to_float(v).value >= low
  /\ to_float(v).value <= high

Answered == pc = "done" \/ weather_pc = "done"

\* C19 as stated: a non-success status of the upstream answer is the status
\* of the response to the client, for both endpoints
C19_StatusPassedThrough ==
  \A i \in 1..Len(answers) :
    (Answered /\ answers[i].kind = "HTTPError") => response.status = answers[i].status

\* C19 as amended: the search endpoint answers every non-success upstream
\* status with 500; the current-weather endpoint passes 400 through and
\* answers every other non-success upstream status with 500
C19_StatusMapped ==
  \A i \in 1..Len(answers) :
    answers[i].kind = "HTTPError" =>
      /\ Answered
      /\ response.success = FALSE
      /\ pc = "done" => (response.status = 500 /\ response.code = "SEARCH_ERROR")
      /\ weather_pc = "done" =>
           /\ answers[i].status = 400 => (response.status = 400 /\ response.code = "INVALID_LOCATION")
           /\ answers[i].status \in {401, 403} => (response.status = 500 /\ response.code = "API_KEY_ERROR")
           /\ answers[i].status \notin {400, 401, 403} => (response.status = 500 /\ response.code = "API_ERROR")

\* the upstream endpoint has refused the key of a current-weather request
\* with 401 and the client has got 500
C19_Witness ==
  /\ weather_pc = "done"
  /\ Len(answers) = 1
  /\ answers[1].kind = "HTTPError"
  /\ answers[1].status = 401
  /\ response.status = 500

-----------------------------------------------------------------------------
(* search_cities: the first failing candidate, repeated queries, results   *)
(* without an id                                                           *)

\* C25: after a candidate query has raised an HTTP error no later candidate
\* is queried, the request is over, and its response is the error
\* SEARCH_ERROR without any of the results accumulated from the candidates
\* that succeeded before
C25_AbortOnFirstHTTPError ==
  \A i \in 1..Len(answers) :
    answers[i].kind = "HTTPError" =>
      /\ i = Len(answers)
      /\ Len(calls) = i
      /\ pc = "done"
      /\ ~response.success
      /\ response.code = "SEARCH_ERROR"
      /\ response.data = <<>>

\* the second candidate raises an HTTP error after the first has brought
\* results, and a third candidate is left
C25_Witness ==
  /\ pc = "done"
  /\ Len(answers) = 2
  /\ answers[1].kind = "ok"
  /\ answers[2].kind = "HTTPError"
  /\ Len(all_results) > 0
  /\ Len(search_queries) > 2
  /\ response.data = <<>>

\* C23: no retries: the requests sent are never more than the candidates,
\* which are at most 4; after a request that failed no request is sent at
\* all, so none is sent again; and the request ends, with a response that is
\* set once and never changed
C23_NoRetries ==
  /\ [](Len(calls) <= Len(search_queries) /\ Len(search_queries) <= 4)
  /\ [](\A i \in 1..Len(answers) : answers[i].kind # "ok" => Len(calls) = i)
  /\ [][\A i \in 1..Len(answers) :
          answers[i].kind # "ok" => calls' = calls /\ answers' = answers]_vars
  /\ <>(pc = "done" /\ response # NoResponse)
  /\ [][response # NoResponse => response' = response /\ pc' = "done"]_vars
  /\ [](pc # "done" => response = NoResponse)

\* the fourth of four candidates has failed after three answers, and the
\* request has ended with four requests sent
C23_Witness ==
  /\ pc = "done"
  /\ Len(search_queries) = 4
  /\ Len(calls) = 4
  /\ answers[4].kind # "ok"
  /\ response # NoResponse

\* C26: within one search request no query string is sent to the upstream
\* search endpoint more than once
C26_NoQuerySentTwice ==
  \A i, j \in 1..Len(calls) : calls[i] = calls[j] => i = j

\* the positions of the results without an id
IdLessPositions(results) == {i \in 1..Len(results) : results[i].id = None}

RECURSIVE Flatten(_)
\* the results of all answers so far, in the order they came
Flatten(as) ==
  IF as = <<>> THEN <<>>
  ELSE Flatten(SubSeq(as, 1, Len(as) - 1)) \o as[Len(as)].body

\* C28: results without an id count as having the one id None: among the
\* accumulated results and in the returned list at most one result has no
\* id, and it is the first such result of all the answers
C28_OneIdLessResult ==
  /\ Cardinality(IdLessPositions(all_results)) <= 1
  /\ Cardinality(IdLessPositions(response.data)) <= 1
  /\ \A i \in IdLessPositions(all_results) :
       LET all == Flatten(answers)
       IN  \E p \in IdLessPositions(all) :
             /\ all[p] = all_results[i]
             /\ \A r \in IdLessPositions(all) : p <= r

\* two candidates have each brought two results without an id, and the
\* returned list holds exactly one of the four
C28_Witness ==
  /\ pc = "done"
  /\ response.success
  /\ Len(answers) = 2
  /\ answers[1].body = IdLess(1)
  /\ answers[2].body = IdLess(2)
  /\ Cardinality(IdLessPositions(response.data)) = 1

-----------------------------------------------------------------------------
(* The HTTP status and the body of a response                              *)

\* the body has success = false
IsErrorBody == "success" \in response.keys /\ ~response.success

\* the body has success = true
IsSuccessBody == "success" \in response.keys /\ response.success

\* C29 as stated: for every response the HTTP status is the status field of
\* the body's error object when the body has success = false, and the HTTP
\* status is 200 exactly when the body has success = true
C29_StatusMatchesBody ==
  response # NoResponse =>
    /\ IsErrorBody => response.status = response.error_status
    /\ response.status = 200 <=> IsSuccessBody

\* C29 as amended: the same for every response but the one of health_check,
\* which has the status 200 and a body without the key success
C29_StatusMatchesEnvelope ==
  response # NoResponse =>
    /\ IsErrorBody => response.status = response.error_status
    /\ IsSuccessBody => response.status = 200
    /\ response.status = 200 => IsSuccessBody \/ route = "done"
    /\ route = "done" /\ ~IsErrorBody =>
         response.status = 200 /\ "success" \notin response.keys

\* a body that is no JSON text has been answered by handle_exception with
\* the code of BadRequest
C29_Witness ==
  /\ weather_pc = "done"
  /\ json_data = MalformedBody
  /\ response.code = "UNHANDLED_EXCEPTION"
  /\ response.status = 400
  /\ IsErrorBody

-----------------------------------------------------------------------------
(* Rejected requests and upstream calls                                    *)

\* the search handler rejects the request: the trimmed q is empty or shorter
\* than 2 characters
SearchRejects == Len(strip(q)) < 2

\* validate_location_request has returned is_valid = True for the sanitized
\* body of the request
BodyIsValid ==
  /\ IsDict(json_data)
  /\ ~Raises(validate_location_request(sanitize_input_dict(json_data)))
  /\ validate_location_request(sanitize_input_dict(json_data))[1]

\* the request to the current-weather handler is not JSON, or its body does
\* not pass validate_location_request
WeatherRejects == ~is_json \/ ~BodyIsValid

\* the response is an error response with the status 400
IsBadRequestResponse ==
  /\ IsErrorBody
  /\ response.status = 400
  /\ response.error_status = 400

\* C27: a rejected request is answered with a 400 error response and has
\* caused no upstream call, and a request that has caused an upstream call
\* has passed the validation of its handler
C27_NoUpstreamCallForRejected ==
  /\ pc = "done" /\ SearchRejects => IsBadRequestResponse /\ calls = <<>>
  /\ weather_pc = "done" /\ WeatherRejects => IsBadRequestResponse /\ calls = <<>>
  /\ pc # "off" /\ SearchRejects => calls = <<>>
  /\ weather_pc # "off" /\ WeatherRejects => calls = <<>>
  /\ pc # "off" /\ calls # <<>> => ~SearchRejects
  /\ weather_pc # "off" /\ calls # <<>> => is_json /\ BodyIsValid

-----------------------------------------------------------------------------
(* validate_days                                                           *)

\* the value has an integer conversion: it is an integer, a finite float, a
\* boolean, or a string that holds a decimal integer
HasIntegerConversion(v) ==
  \/ v.type \in {"number", "float", "bool"}
  \/ v.type = "str" /\ IsNumeral(v.value)

\* the integer conversion of such a value; a float loses its fraction
IntegerConversion(v) ==
  CASE v.type = "number" -> v.value
    [] v.type = "float" -> CHOOSE n \in (0 - MaxDaysArgument - 1)..(MaxDaysArgument + 1) :
                             \/ v.value >= 0 /\ 10 * n <= v.value /\ v.value < 10 * (n + 1)
                             \/ v.value < 0 /\ 10 * (n - 1) < v.value /\ v.value <= 10 * n
    [] v.type = "bool" -> IF v.value THEN 1 ELSE 0
    [] v.type = "str" -> NumeralValue(v.value)

\* C21: validate_days accepts a value exactly when its integer conversion
\* lies in 1..10, and then returns that integer; None is accepted and gives
\* the default 7; every other value is returned as not valid, with the
\* default 7
C21_DaysValidation ==
  call_pc = "done" =>
    IF argument = NoneValue
    THEN returned = <<TRUE, NoError, DefaultDays>>
    ELSE IF /\ HasIntegerConversion(argument)
            /\ IntegerConversion(argument) \in MinDays..MaxDays
    THEN returned = <<TRUE, NoError, IntegerConversion(argument)>>
    ELSE /\ Len(returned) = 3
         /\ returned[1] = FALSE
         /\ returned[3] = DefaultDays

-----------------------------------------------------------------------------
(* sanitize_input                                                          *)

\* the characters of a string that are neither blank nor among < > " ' `
Kept(chars) == SelectSeq(chars, LAMBDA c : c \notin dangerous_characters \cup Whitespace)

RECURSIVE Sanitized(_, _)
\* result is value with the five characters taken out of every string that
\* is a value of a dict or an item of a list at any depth, or the value
\* itself: every such string has none of the five characters, has lost no
\* other character but blanks, and all that is no such string is the same
Sanitized(value, result) ==
  /\ result.type = value.type
  /\ CASE value.type = "str" ->
             /\ Range(result.value) \cap dangerous_characters = {}
             /\ Kept(result.value) = Kept(value.value)
             /\ Len(result.value) <= Len(value.value)
        [] value.type = "list" ->
             /\ Len(result.value) = Len(value.value)
             /\ \A i \in 1..Len(value.value) : Sanitized(value.value[i], result.value[i])
        [] value.type = "dict" ->
             /\ Len(result.value) = Len(value.value)
             /\ \A i \in 1..Len(value.value) :
                  /\ result.value[i][1] = value.value[i][1]
                  /\ Sanitized(value.value[i][2], result.value[i][2])
        [] OTHER -> result = value

\* C22: sanitize_input takes < > " ' ` out of every string it reaches through
\* nested dicts and lists, leaves what is no string as it is, and a second
\* call on the result returns the result
C22_SanitizeRecursiveIdempotent ==
  /\ call_pc \in {"done", "again"} => Sanitized(argument, returned)
  /\ call_pc = "again" => returned_again = returned

\* a string with a character to remove, in a list inside a dict, has been
\* sanitized twice
C22_Witness ==
  /\ call_pc = "again"
  /\ argument.type = "dict"
  /\ argument.value[1][2].type = "list"
  /\ argument.value[1][2].value[1] = Str(<<"<", " ", "b">>)
  /\ returned.value[1][2].value[1] = Str(<<"b">>)
  /\ returned_again = returned

-----------------------------------------------------------------------------
(* get_search_suggestions                                                  *)

\* a name of the entry contains the query, whatever the case of the query:
\* the Vietnamese name, the folded Vietnamese name or the English name
NameContainsQuery(item, query_text) ==
  \/ contains(item[1], lower(query_text))
  \/ contains(remove_vietnamese_diacritics(item[1]), lower(query_text))
  \/ contains(lower(item[2]), lower(query_text))

\* the same, with the folded query looked for in the folded Vietnamese name
NameContainsFoldedQuery(item, query_text) ==
  \/ contains(item[1], lower(query_text))
  \/ contains(remove_vietnamese_diacritics(item[1]),
              remove_vietnamese_diacritics(lower(query_text)))
  \/ contains(lower(item[2]), lower(query_text))

\* the suggestion built from an entry
SuggestionOf(item) == <<title(item[1]), item[2]>>

\* the suggestion of every entry of the table; no two entries have the
\* same one, the keys being distinct lowercase names
EntrySuggestions ==
  [k \in DOMAIN CITY_MAPPINGS_items |-> SuggestionOf(CITY_MAPPINGS_items[k])]

\* the position in the table of the entry a suggestion is built from
EntryOf(suggestion) ==
  CHOOSE k \in DOMAIN EntrySuggestions : EntrySuggestions[k] = suggestion

\* the entries a name of which contains the query
EntriesAsStated ==
  {k \in DOMAIN CITY_MAPPINGS_items : NameContainsQuery(CITY_MAPPINGS_items[k], argument)}

\* the same with NameContainsFoldedQuery
Entries ==
  {k \in DOMAIN CITY_MAPPINGS_items :
     NameContainsFoldedQuery(CITY_MAPPINGS_items[k], argument)}

\* every returned suggestion is built from one of the entries, each from a
\* later entry of the table than the one before
FromEntries(entries) ==
  /\ \A i \in 1..Len(returned) : \E k \in entries : EntrySuggestions[k] = returned[i]
  /\ \A i \in 1..(Len(returned) - 1) : EntryOf(returned[i]) < EntryOf(returned[i + 1])

-----------------------------------------------------------------------------
(* search_cities: requests handled at the same time                        *)

RECURSIVE Accumulate(_, _, _)
\* the accumulator <<all_results, seen_ids>> after the answers from position
\* i on have been merged into it
Accumulate(list, i, accumulator) ==
  IF i > Len(list) THEN accumulator
  ELSE Accumulate(list, i + 1, add_unique(accumulator[1], accumulator[2], list[i].body, 1))

\* the response to the request raw when it is handled alone and the upstream
\* endpoint gives the answers of list
ResponseAlone(raw, list) ==
  IF strip(raw) = <<>> THEN jsonify(format_error("MISSING_QUERY", 400), 400)
  ELSE IF Len(strip(raw)) < 2 THEN jsonify(format_error("QUERY_TOO_SHORT", 400), 400)
  ELSE LET last == list[Len(list)]
           found == Accumulate(list, 1, <<(<<>>), {}>>)[1]
       IN  IF last.kind = "HTTPError" THEN jsonify(format_error("SEARCH_ERROR", 500), 500)
           ELSE IF last.kind = "Timeout" THEN jsonify(format_error("TIMEOUT_ERROR", 504), 504)
           ELSE IF last.kind # "ok" THEN jsonify(format_error("INTERNAL_ERROR", 500), 500)
           ELSE jsonify(format_success(
                  [i \in 1..Min({Len(found), ResultLimit}) |-> format_result(found[i])]), 200)

\* C24: requests handled at the same time share no state: the accumulator
\* and the seen-id set are empty when the loop of a request starts, a step
\* of one worker leaves the variables of the others as they are, and every
\* response is the one the request gets when it is handled alone with the
\* same upstream answers
C24_NoSharedState ==
  /\ [](pc = "done" => response = ResponseAlone(q, answers))
  /\ [](\A w \in DOMAIN suspended :
          suspended[w].pc = "done" =>
            suspended[w].response = ResponseAlone(suspended[w].q, suspended[w].answers))
  /\ [][worker' = worker /\ pc = "start" /\ pc' = "loop" =>
          all_results' = <<>> /\ seen_ids' = {}]_vars
  /\ [][worker' = worker => suspended' = suspended]_vars
  /\ [][worker' # worker =>
          /\ suspended'[worker] = locals
          /\ locals' = suspended[worker']
          /\ \A w \in DOMAIN suspended \ {worker'} : suspended'[w] = suspended[w]]_vars

\* two requests are under way at the same time, each after a first answer
\* with results, and their accumulators differ
C24_Witness ==
  /\ pc = "await"
  /\ Len(all_results) > 0
  /\ \E w \in DOMAIN suspended :
       /\ suspended[w].pc = "await"
       /\ Len(suspended[w].all_results) > 0
       /\ suspended[w].all_results # all_results
       /\ suspended[w].seen_ids # seen_ids

====
